---- MODULE Spec2Model ----
(***************************************************************************)
(* A model of the retrieval and graph-construction core of the adaptive    *)
(* knowledge graph backend: rank fusion, the in-memory KnowledgeGraph,     *)
(* concept deduplication, window retrieval, the /ask request handler,      *)
(* ensemble concept extraction and importance scoring.                     *)
(*                                                                         *)
(* Every component has its own variables and its own specification; a      *)
(* component that a specification does not exercise stays in its idle      *)
(* state.                                                                  *)
(***************************************************************************)
EXTENDS Integers, Sequences, FiniteSets, TLC

\* ------------------------------------------------------------------ bounds
MaxHits == 3
MaxTopK == 4

\* ------------------------------------------------------- generic helpers
Range(s) == {s[i] : i \in 1..Len(s)}

Take(s, n) == SubSeq(s, 1, IF n < Len(s) THEN n ELSE Len(s))

InjSeqs(S, n) ==
    UNION {{s \in [1..m -> S] : \A i, j \in 1..m : i # j => s[i] # s[j]} : m \in 0..n}

SeqsUpTo(S, n) == UNION {[1..m -> S] : m \in 0..n}

Max2(a, b) == IF a >= b THEN a ELSE b

Min2(a, b) == IF a <= b THEN a ELSE b

VARIABLES
    rrf_pc,        \* "idle" | "start" | "done_opensearch" | "done_unified"
    knn_hits,      \* first ranked list (kNN hits / Neo4j results): document ids
    bm25_hits,     \* second ranked list (BM25 hits / OpenSearch results)
    top_k,         \* requested number of results
    merged         \* the fused output: sequence of [id, score, src]

VARIABLES
    concepts,          \* KnowledgeGraph.concepts: name -> [frequency, source_modules]
    concept_calls,     \* history: the ConceptNodes passed to add_concept, in call order
    relationships,     \* KnowledgeGraph.relationships: list of [source, target, type, weight]
    relationship_calls, \* history: the Relationships passed to add_relationship
    importance_pc      \* KGBuilder._compute_importance_scores: "idle" | "start" | "done"

VARIABLES
    dedup_pc,          \* "idle" | "start" | "done"
    candidates,        \* the list passed to _deduplicate_concepts
    kept               \* the list it returns

VARIABLES
    win_pc,            \* "idle" | "start" | "done"
    chunk_ids,         \* retrieve_with_window: the input hit ids
    window_size,       \* its window_size argument (-1 stands for None)
    deduplicate,       \* its deduplicate argument
    all_chunks         \* the list it returns

VARIABLES
    ask_pc,            \* position in ask_question: "idle" | "subject" | "expansion" |
                       \* "retrieval" | "window" | "generation" | "done"
    body,              \* the QuestionRequest fields the handler branches on
    settings,          \* rag_kg_expansion, rag_window_retrieval, vector_backend
    query,             \* the text handed to the retriever
    expanded_concepts, \* the handler's expanded_concepts local
    retrieved_chunks,  \* the handler's retrieved_chunks local
    response,          \* the HTTP outcome: [status, detail, expanded_concepts, ...]
    ask_trace          \* history: calls made and faults met during the request

VARIABLES
    extract_pc,        \* "idle" | "start" | "done_ensemble" | "done_extract"
    ner_status,        \* named-entity strategy: "ok" | "unavailable" | "raises"
    ner_found,         \* the matches spaCy entities and noun chunks yield on the text
    yake_found,        \* the matches the YAKE keywords yield on the text
    extract_top_k,     \* extract_concepts: top_k
    matches            \* the list returned

VARIABLES
    kgx_pc,              \* KGExpander call: "idle", "start", "done" or "raised"
    kgx_query,           \* the query text
    all_concepts,        \* the known-concept set passed in
    extraction_strategy, \* KGExpander.extraction_strategy
    extractor_outcome,   \* what the shared ConceptExtractor does on this query
    neighbor_lookup,     \* per concept: what query_concept_neighbors does
    extracted,           \* extract_concepts_from_query's result
    expanded,            \* expand_with_kg's result
    expanded_query       \* expand_query's expanded_query

VARIABLES
    hyb_pc,              \* hybrid retrieval: "idle", "running", "done" or "raised"
    hyb_mode,            \* which hybrid path runs
    arm_status,          \* per query of the path: "not_issued", "in_flight", "returned", "failed"
    arm_fault,           \* the queries whose backend raises
    arm_hits,            \* per query: the ranked ids its backend holds for it
    hyb_top_k,           \* top_k
    hyb_result           \* the fused list returned

VARIABLES
    cx_pc,               \* per caller: "start", "installed" or "done"
    cx_query,            \* per caller: its query
    cx_known,            \* per caller: its all_concepts argument
    shared_known,        \* the singleton ConceptExtractor's known_concepts
    cx_extracted         \* per caller: the concepts its call extracted

VARIABLES
    build_pc,            \* build_from_records: "idle", "start", "done" or "raised"
    records,             \* the corpus records passed in
    modules_data         \* module_id -> the records grouped under it

VARIABLES
    link_pc,             \* linking: "idle", "start_chunker", "start_migration", "done_chunker", "done_migration"
    link_records,        \* chunk_records: the records passed in
    raw_chunks,          \* add_sequential_linking: the chunks loaded from the index
    linked_chunks        \* the chunks returned, with their pointers

VARIABLES
    student_pc,          \* student service: "idle" or "serving"
    student_profiles,    \* StudentService._profiles: student_id -> mastery_map
    mastery_calls,       \* number of update_mastery calls made
    mastery_response     \* the last MasteryUpdateResponse

VARIABLES
    prereq_pc,           \* prerequisite extraction: "idle", "start", "done"
    prereq_concepts,     \* the concepts list, in the order given to the extraction
    prereq_matches,      \* the pattern matches of the record texts: text before the match, captured span
    prereq_relationships \* self.kg.relationships filled by the extraction

VARIABLES
    cache_pc,            \* concept extractor: "idle" or "serving"
    known_concepts,      \* ConceptExtractor.known_concepts
    concept_embeddings,  \* ConceptExtractor._concept_embeddings: name -> the set version it was computed for
    set_version,         \* number of set_known_concepts calls made
    cache_fills,         \* number of times the cache was filled (the "Cached embeddings" log line)
    embedding_matches    \* the matches of the last _extract_embedding call

VARIABLES
    adapter_pc,          \* adapter factories: "idle" or "serving"
    adapter_state,       \* every Neo4jAdapter created so far: "unconnected", "open" or "closed"
    neo4j_adapters,      \* _neo4j_adapters: subject_id -> adapter
    kg_expanders,        \* _kg_expanders: subject_id -> the expander's neo4j_adapter (0: None)
    kg_expander,         \* _kg_expander: -1 when None, else the default expander's neo4j_adapter
    adapter_returned     \* the last return of get_neo4j_adapter: the adapter and whether it was open

VARIABLES
    chunker_pc,          \* chunk_text: "idle", "loop" (at the while test) or "done"
    chunker_text,        \* the text being chunked
    chunk_size,          \* self.chunk_size
    chunk_overlap,       \* self.chunk_overlap
    start_pos,           \* start
    prev_start,          \* start at the previous test of the while condition
    chunk_count          \* len(chunks)

rrfVars == <<rrf_pc, knn_hits, bm25_hits, top_k, merged>>

kgVars == <<concepts, concept_calls, relationships, relationship_calls, importance_pc>>

dedupVars == <<dedup_pc, candidates, kept>>

winVars == <<win_pc, chunk_ids, window_size, deduplicate, all_chunks>>

askVars == <<ask_pc, body, settings, query, expanded_concepts, retrieved_chunks,
             response, ask_trace>>

extractVars == <<extract_pc, ner_status, ner_found, yake_found, extract_top_k, matches>>

expanderVars == <<kgx_pc, kgx_query, all_concepts, extraction_strategy, extractor_outcome,
                 neighbor_lookup, extracted, expanded, expanded_query>>

hybridVars == <<hyb_pc, hyb_mode, arm_status, arm_fault, arm_hits, hyb_top_k, hyb_result>>

concVars == <<cx_pc, cx_query, cx_known, shared_known, cx_extracted>>

buildVars == <<build_pc, records, modules_data>>

linkVars == <<link_pc, link_records, raw_chunks, linked_chunks>>

studentVars == <<student_pc, student_profiles, mastery_calls, mastery_response>>

prereqVars == <<prereq_pc, prereq_concepts, prereq_matches, prereq_relationships>>

cacheVars == <<cache_pc, known_concepts, concept_embeddings, set_version, cache_fills, embedding_matches>>

adapterVars == <<adapter_pc, adapter_state, neo4j_adapters, kg_expanders, kg_expander, adapter_returned>>

chunkerVars == <<chunker_pc, chunker_text, chunk_size, chunk_overlap, start_pos, prev_start, chunk_count>>

vars == <<rrfVars, kgVars, dedupVars, winVars, askVars, extractVars, expanderVars,
          hybridVars, concVars, buildVars, linkVars, studentVars, prereqVars, cacheVars,
          adapterVars, chunkerVars>>

notRRF == <<kgVars, dedupVars, winVars, askVars, extractVars, expanderVars, hybridVars,
            concVars, buildVars, linkVars, studentVars, prereqVars, cacheVars,
            adapterVars, chunkerVars>>

notKG == <<rrfVars, dedupVars, winVars, askVars, extractVars, expanderVars, hybridVars,
           concVars, buildVars, linkVars, studentVars, prereqVars, cacheVars,
           adapterVars, chunkerVars>>

notDedup == <<rrfVars, kgVars, winVars, askVars, extractVars, expanderVars, hybridVars,
              concVars, buildVars, linkVars, studentVars, prereqVars, cacheVars,
              adapterVars, chunkerVars>>

notWin == <<rrfVars, kgVars, dedupVars, askVars, extractVars, expanderVars, hybridVars,
            concVars, buildVars, linkVars, studentVars, prereqVars, cacheVars,
            adapterVars, chunkerVars>>

notAsk == <<rrfVars, kgVars, dedupVars, winVars, extractVars, expanderVars, hybridVars,
            concVars, buildVars, linkVars, studentVars, prereqVars, cacheVars,
            adapterVars, chunkerVars>>

notExtract == <<rrfVars, kgVars, dedupVars, winVars, askVars, expanderVars, hybridVars,
                concVars, buildVars, linkVars, studentVars, prereqVars, cacheVars,
                adapterVars, chunkerVars>>

notExpander == <<rrfVars, kgVars, dedupVars, winVars, askVars, extractVars, hybridVars,
                 concVars, buildVars, linkVars, studentVars, prereqVars, cacheVars,
                 adapterVars, chunkerVars>>

notHybrid == <<rrfVars, kgVars, dedupVars, winVars, askVars, extractVars, expanderVars,
               concVars, buildVars, linkVars, studentVars, prereqVars, cacheVars,
               adapterVars, chunkerVars>>

notConc == <<rrfVars, kgVars, dedupVars, winVars, askVars, extractVars, expanderVars,
             hybridVars, buildVars, linkVars, studentVars, prereqVars, cacheVars,
             adapterVars, chunkerVars>>

notBuild == <<rrfVars, kgVars, dedupVars, winVars, askVars, extractVars, expanderVars,
              hybridVars, concVars, linkVars, studentVars, prereqVars, cacheVars,
              adapterVars, chunkerVars>>

notLink == <<rrfVars, kgVars, dedupVars, winVars, askVars, extractVars, expanderVars,
             hybridVars, concVars, buildVars, studentVars, prereqVars, cacheVars,
             adapterVars, chunkerVars>>

notStudent == <<rrfVars, kgVars, dedupVars, winVars, askVars, extractVars, expanderVars,
                hybridVars, concVars, buildVars, linkVars, prereqVars, cacheVars,
                adapterVars, chunkerVars>>

notPrereq == <<rrfVars, kgVars, dedupVars, winVars, askVars, extractVars, expanderVars,
               hybridVars, concVars, buildVars, linkVars, studentVars, cacheVars,
               adapterVars, chunkerVars>>

notCache == <<rrfVars, kgVars, dedupVars, winVars, askVars, extractVars, expanderVars,
              hybridVars, concVars, buildVars, linkVars, studentVars, prereqVars,
              adapterVars, chunkerVars>>

notAdapter == <<rrfVars, kgVars, dedupVars, winVars, askVars, extractVars, expanderVars,
                hybridVars, concVars, buildVars, linkVars, studentVars, prereqVars,
                cacheVars, chunkerVars>>

notChunker == <<rrfVars, kgVars, dedupVars, winVars, askVars, extractVars, expanderVars,
                hybridVars, concVars, buildVars, linkVars, studentVars, prereqVars,
                cacheVars, adapterVars>>

\* ------------------------------------------------ components not in use
RRFIdle ==
    /\ rrf_pc = "idle"
    /\ knn_hits = <<>>
    /\ bm25_hits = <<>>
    /\ top_k = 0
    /\ merged = <<>>

KGIdle ==
    /\ concepts = <<>>
    /\ concept_calls = <<>>
    /\ relationships = <<>>
    /\ relationship_calls = <<>>
    /\ importance_pc = "idle"

DedupIdle ==
    /\ dedup_pc = "idle"
    /\ candidates = <<>>
    /\ kept = <<>>

WinIdle ==
    /\ win_pc = "idle"
    /\ chunk_ids = <<>>
    /\ window_size = -1
    /\ deduplicate = TRUE
    /\ all_chunks = <<>>

AskIdle ==
    /\ ask_pc = "idle"
    /\ body = <<>>
    /\ settings = <<>>
    /\ query = <<>>
    /\ expanded_concepts = <<>>
    /\ retrieved_chunks = <<>>
    /\ response = <<>>
    /\ ask_trace = <<>>

ExtractIdle ==
    /\ extract_pc = "idle"
    /\ ner_status = "ok"
    /\ ner_found = <<>>
    /\ yake_found = <<>>
    /\ extract_top_k = 0
    /\ matches = <<>>

ExpanderIdle ==
    /\ kgx_pc = "idle"
    /\ kgx_query = <<>>
    /\ all_concepts = {}
    /\ extraction_strategy = "simple"
    /\ extractor_outcome = <<>>
    /\ neighbor_lookup = <<>>
    /\ extracted = <<>>
    /\ expanded = <<>>
    /\ expanded_query = <<>>

HybridIdle ==
    /\ hyb_pc = "idle"
    /\ hyb_mode = "idle"
    /\ arm_status = <<>>
    /\ arm_fault = {}
    /\ arm_hits = <<>>
    /\ hyb_top_k = 0
    /\ hyb_result = <<>>

ConcIdle ==
    /\ cx_pc = <<>>
    /\ cx_query = <<>>
    /\ cx_known = <<>>
    /\ shared_known = {}
    /\ cx_extracted = <<>>

BuildIdle ==
    /\ build_pc = "idle"
    /\ records = <<>>
    /\ modules_data = <<>>

LinkIdle ==
    /\ link_pc = "idle"
    /\ link_records = <<>>
    /\ raw_chunks = <<>>
    /\ linked_chunks = <<>>

StudentIdle ==
    /\ student_pc = "idle"
    /\ student_profiles = <<>>
    /\ mastery_calls = 0
    /\ mastery_response = <<>>

PrereqIdle ==
    /\ prereq_pc = "idle"
    /\ prereq_concepts = <<>>
    /\ prereq_matches = <<>>
    /\ prereq_relationships = <<>>

CacheIdle ==
    /\ cache_pc = "idle"
    /\ known_concepts = {}
    /\ concept_embeddings = <<>>
    /\ set_version = 0
    /\ cache_fills = 0
    /\ embedding_matches = {}

AdapterIdle ==
    /\ adapter_pc = "idle"
    /\ adapter_state = <<>>
    /\ neo4j_adapters = <<>>
    /\ kg_expanders = <<>>
    /\ kg_expander = -1
    /\ adapter_returned = <<>>

ChunkerIdle ==
    /\ chunker_pc = "idle"
    /\ chunker_text = <<>>
    /\ chunk_size = 0
    /\ chunk_overlap = 0
    /\ start_pos = 0
    /\ prev_start = 0
    /\ chunk_count = 0

\* ======================================================================
\* Reciprocal rank fusion
\* ======================================================================
DocIds == {"D1", "D2", "D3", "D4"}

RRF_K == 60

\* Scores are exact rationals with the common denominator
\* (k+1)(k+2)...(k+MaxHits); RRFTerm(rank) is the numerator of 1/(k+rank).
RECURSIVE RRFDenomUpTo(_)
RRFDenomUpTo(n) == IF n = 0 THEN 1 ELSE (RRF_K + n) * RRFDenomUpTo(n - 1)

RRFDenom == RRFDenomUpTo(MaxHits)

RRFTermZeroBased(rank) == RRFDenom \div (RRF_K + rank - 1)

RRFTerm(rank) == RRFDenom \div (RRF_K + rank)

\* scores / chunk_data: a Python dict, kept as the sequence of its entries in
\* insertion order.  scores.get(id, 0.0) + term; chunk_data keeps the first hit.
DictHas(d, id) == \E i \in 1..Len(d) : d[i].id = id

DictAccumulate(d, id, term, src) ==
    IF DictHas(d, id)
    THEN [i \in 1..Len(d) |->
            IF d[i].id = id THEN [d[i] EXCEPT !.score = @ + term] ELSE d[i]]
    ELSE Append(d, [id |-> id, score |-> term, src |-> src])

\* for rank, hit in enumerate(hits, start=1): ...
RECURSIVE ScanHits(_, _, _, _)
ScanHits(d, hits, rank, src) ==
    IF rank > Len(hits) THEN d
    ELSE ScanHits(DictAccumulate(d, hits[rank], RRFTerm(rank), src), hits, rank + 1, src)

\* sorted(scores.keys(), key=lambda x: scores[x], reverse=True): Python's sort is
\* stable, also with reverse=True, so entries of equal score keep dict order.
RECURSIVE InsertDescTiesFirst(_, _)
InsertDescTiesFirst(sorted, e) ==
    IF sorted = <<>> THEN <<e>>
    ELSE IF Head(sorted).score > e.score
         THEN <<Head(sorted)>> \o InsertDescTiesFirst(Tail(sorted), e)
         ELSE <<e>> \o sorted

RECURSIVE InsertDesc(_, _)
InsertDesc(sorted, e) ==
    IF sorted = <<>> THEN <<e>>
    ELSE IF Head(sorted).score >= e.score
         THEN <<Head(sorted)>> \o InsertDesc(Tail(sorted), e)
         ELSE <<e>> \o sorted

RECURSIVE SortByScoreDescUnstable(_)
SortByScoreDescUnstable(d) ==
    IF d = <<>> THEN <<>>
    ELSE InsertDescTiesFirst(SortByScoreDescUnstable(SubSeq(d, 1, Len(d) - 1)), d[Len(d)])

RECURSIVE SortByScoreDesc(_)
SortByScoreDesc(d) ==
    IF d = <<>> THEN <<>>
    ELSE InsertDesc(SortByScoreDesc(SubSeq(d, 1, Len(d) - 1)), d[Len(d)])

\* OpenSearchRetriever._reciprocal_rank_fusion(knn_hits, bm25_hits, k, top_k)
OpenSearchRRF(knn, bm25, topk) ==
    LET scores == ScanHits(ScanHits(<<>>, knn, 1, "knn"), bm25, 1, "bm25")
    IN  Take(SortByScoreDesc(scores), topk)

\* UnifiedRetriever._reciprocal_rank_fusion(result_lists, k): no truncation
RECURSIVE ScanResultLists(_, _, _)
ScanResultLists(d, result_lists, n) ==
    IF n > Len(result_lists) THEN d
    ELSE ScanResultLists(ScanHits(d, result_lists[n].hits, 1, result_lists[n].src),
                         result_lists, n + 1)

UnifiedRRF(result_lists) == SortByScoreDesc(ScanResultLists(<<>>, result_lists, 1))

\* UnifiedRetriever._retrieve_hybrid: fuse [neo4j_results, opensearch_results],
\* then merged[:top_k]
UnifiedRetrieveHybridFuse(neo4j_results, opensearch_results, topk) ==
    Take(UnifiedRRF(<<[hits |-> neo4j_results, src |-> "knn"],
                      [hits |-> opensearch_results, src |-> "bm25"]>>), topk)

InitRRF ==
    /\ rrf_pc = "start"
    /\ knn_hits \in InjSeqs(DocIds, MaxHits)
    /\ bm25_hits \in InjSeqs(DocIds, MaxHits)
    /\ top_k \in 1..MaxTopK
    /\ merged = <<>>
    /\ KGIdle
    /\ DedupIdle
    /\ WinIdle
    /\ AskIdle
    /\ ExtractIdle
    /\ ExpanderIdle
    /\ HybridIdle
    /\ ConcIdle
    /\ BuildIdle
    /\ LinkIdle
    /\ StudentIdle
    /\ PrereqIdle
    /\ CacheIdle
    /\ AdapterIdle
    /\ ChunkerIdle

FuseOpenSearch ==
    /\ rrf_pc = "start"
    /\ merged' = OpenSearchRRF(knn_hits, bm25_hits, top_k)
    /\ rrf_pc' = "done_opensearch"
    /\ UNCHANGED <<knn_hits, bm25_hits, top_k>>
    /\ UNCHANGED notRRF

FuseUnified ==
    /\ rrf_pc = "start"
    /\ merged' = UnifiedRetrieveHybridFuse(knn_hits, bm25_hits, top_k)
    /\ rrf_pc' = "done_unified"
    /\ UNCHANGED <<knn_hits, bm25_hits, top_k>>
    /\ UNCHANGED notRRF

NextRRF ==
    \/ FuseOpenSearch
    \/ FuseUnified

SpecRRF == InitRRF /\ [][NextRRF]_vars

RRFDone == rrf_pc \in {"done_opensearch", "done_unified"}

\* 1-based position of id in a duplicate-free list (0 when absent)
PosIn(hits, id) == IF id \in Range(hits) THEN CHOOSE i \in 1..Len(hits) : hits[i] = id ELSE 0

Contribution(hits, id) == IF id \in Range(hits) THEN RRFDenom \div (RRF_K + PosIn(hits, id)) ELSE 0

\* C1: the fused output holds each document of either list at most once, with
\* score sum over the lists containing it of 1/(k + rank); it is ordered by
\* score descending, holds at most top_k entries, and is the top of the
\* ranking (no omitted document outscores a returned one).
C1_RRFScoresAndOrder ==
    RRFDone =>
        /\ Len(merged) = Min2(top_k, Cardinality(Range(knn_hits) \cup Range(bm25_hits)))
        /\ \A i, j \in 1..Len(merged) : i # j => merged[i].id # merged[j].id
        /\ \A i \in 1..Len(merged) :
              /\ merged[i].id \in Range(knn_hits) \cup Range(bm25_hits)
              /\ merged[i].score = Contribution(knn_hits, merged[i].id)
                                   + Contribution(bm25_hits, merged[i].id)
        /\ \A i, j \in 1..Len(merged) : i < j => merged[i].score >= merged[j].score
        /\ \A d \in (Range(knn_hits) \cup Range(bm25_hits)) \ {merged[i].id : i \in 1..Len(merged)} :
              \A i \in 1..Len(merged) :
                  merged[i].score >= Contribution(knn_hits, d) + Contribution(bm25_hits, d)
        /\ (bm25_hits = <<"D1", "D2", "D3">> /\ knn_hits = <<"D2", "D3", "D4">> /\ top_k >= 4)
              => [i \in 1..Len(merged) |-> merged[i].id] = <<"D2", "D3", "D1", "D4">>

C1_Witness ==
    /\ RRFDone
    /\ bm25_hits = <<"D1", "D2", "D3">>
    /\ knn_hits = <<"D2", "D3", "D4">>
    /\ top_k = 4
    /\ Len(merged) = 4

\* position of the first appearance of id when the lists are scanned in fusion order
FirstAppearance(id) ==
    IF id \in Range(knn_hits) THEN PosIn(knn_hits, id) ELSE Len(knn_hits) + PosIn(bm25_hits, id)

\* C2: among documents of equal fused score the one that appears first across
\* the fused lists (first list, then second, each in rank order) is ranked first.
C2_TiesByFirstAppearance ==
    RRFDone =>
        \A i, j \in 1..Len(merged) :
            (i < j /\ merged[i].score = merged[j].score)
                => FirstAppearance(merged[i].id) < FirstAppearance(merged[j].id)

C2_Witness ==
    /\ RRFDone
    /\ \E i, j \in 1..Len(merged) :
          /\ i < j
          /\ merged[i].score = merged[j].score
          /\ merged[i].id \in Range(knn_hits) \ Range(bm25_hits)
          /\ merged[j].id \in Range(bm25_hits) \ Range(knn_hits)

\* ======================================================================
\* KnowledgeGraph (kg/schema.py)
\* ======================================================================
MaxConceptCalls == 3
MaxRelationshipCalls == 3

ConceptNames == {"A", "B"}

ModuleIds == {"m1", "m2"}

Frequencies == {1, 2}

\* ConceptNode as KGBuilder constructs it: the module list of a node holds each
\* module once (one entry per key of modules_data)
\* importance_score is a rational [num, den]; the field's default is 0.0
ZeroScore == [num |-> 0, den |-> 1]

ConceptNodes ==
    [name : ConceptNames, frequency : Frequencies,
     source_modules : InjSeqs(ModuleIds, Cardinality(ModuleIds)),
     importance_score : {ZeroScore}]

RelationshipTypes == {"RELATED", "PREREQ"}

\* weights in tenths: 0.5, 0.8, 1.0
Weights == {5, 8, 10}

Relationships ==
    {r \in [source : ConceptNames, target : ConceptNames,
            type : RelationshipTypes, weight : Weights] : r.source # r.target}

\* list(set(xs)): the distinct elements in an order the set's hashing decides
ListOfSet(S) == {s \in InjSeqs(S, Cardinality(S)) : Len(s) = Cardinality(S)}

DictPut(d, key, value) ==
    [k \in DOMAIN d \cup {key} |-> IF k = key THEN value ELSE d[k]]

\* a merge that replaces the stored node instead of updating it
AddConceptReplacing(cs, concept) ==
    {DictPut(cs, concept.name,
             [frequency |-> concept.frequency, source_modules |-> concept.source_modules,
              importance_score |-> concept.importance_score])}

\* KnowledgeGraph.add_concept: the dicts that can result
AddConceptResults(cs, concept) ==
    IF concept.name \in DOMAIN cs
    THEN LET existing == cs[concept.name]
             extended == existing.source_modules \o concept.source_modules
         IN  {DictPut(cs, concept.name,
                      [frequency |-> existing.frequency + concept.frequency,
                       source_modules |-> sm,
                       importance_score |-> existing.importance_score]) :
                 sm \in ListOfSet(Range(extended))}
    ELSE {DictPut(cs, concept.name,
                  [frequency |-> concept.frequency,
                   source_modules |-> concept.source_modules,
                   importance_score |-> concept.importance_score])}

SameTriple(a, b) == a.source = b.source /\ a.target = b.target /\ a.type = b.type

\* a duplicate check that stores the new weight instead of the maximum
AddRelationshipLastWeight(rels, relationship) ==
    IF \E i \in 1..Len(rels) : SameTriple(rels[i], relationship)
    THEN LET first == CHOOSE i \in 1..Len(rels) :
                          /\ SameTriple(rels[i], relationship)
                          /\ \A j \in 1..(i - 1) : ~SameTriple(rels[j], relationship)
         IN  [rels EXCEPT ![first].weight = relationship.weight]
    ELSE Append(rels, relationship)

\* KnowledgeGraph.add_relationship: the first edge of the same triple takes the
\* max weight and the call returns; otherwise the relationship is appended
AddRelationshipResult(rels, relationship) ==
    IF \E i \in 1..Len(rels) : SameTriple(rels[i], relationship)
    THEN LET first == CHOOSE i \in 1..Len(rels) :
                          /\ SameTriple(rels[i], relationship)
                          /\ \A j \in 1..(i - 1) : ~SameTriple(rels[j], relationship)
         IN  [rels EXCEPT ![first].weight = Max2(@, relationship.weight)]
    ELSE Append(rels, relationship)

InitKGConcepts ==
    /\ KGIdle
    /\ RRFIdle
    /\ DedupIdle
    /\ WinIdle
    /\ AskIdle
    /\ ExtractIdle
    /\ ExpanderIdle
    /\ HybridIdle
    /\ ConcIdle
    /\ BuildIdle
    /\ LinkIdle
    /\ StudentIdle
    /\ PrereqIdle
    /\ CacheIdle
    /\ AdapterIdle
    /\ ChunkerIdle

InitKGRelationships ==
    /\ KGIdle
    /\ RRFIdle
    /\ DedupIdle
    /\ WinIdle
    /\ AskIdle
    /\ ExtractIdle
    /\ ExpanderIdle
    /\ HybridIdle
    /\ ConcIdle
    /\ BuildIdle
    /\ LinkIdle
    /\ StudentIdle
    /\ PrereqIdle
    /\ CacheIdle
    /\ AdapterIdle
    /\ ChunkerIdle

add_concept ==
    /\ Len(concept_calls) < MaxConceptCalls
    /\ \E concept \in ConceptNodes :
          /\ concepts' \in AddConceptResults(concepts, concept)
          /\ concept_calls' = Append(concept_calls, concept)
    /\ UNCHANGED <<relationships, relationship_calls, importance_pc>>
    /\ UNCHANGED notKG

add_relationship ==
    /\ Len(relationship_calls) < MaxRelationshipCalls
    /\ \E relationship \in Relationships :
          /\ relationships' = AddRelationshipResult(relationships, relationship)
          /\ relationship_calls' = Append(relationship_calls, relationship)
    /\ UNCHANGED <<concepts, concept_calls, importance_pc>>
    /\ UNCHANGED notKG

NextKGConcepts == add_concept

NextKGRelationships == add_relationship

SpecKGConcepts == InitKGConcepts /\ [][NextKGConcepts]_vars

SpecKGRelationships == InitKGRelationships /\ [][NextKGRelationships]_vars

\* the largest weight passed to add_relationship for the triple of r
MaxInsertedWeight(r) ==
    LET ws == {relationship_calls[i].weight :
                  i \in {k \in 1..Len(relationship_calls) : SameTriple(relationship_calls[k], r)}}
    IN  CHOOSE w \in ws : \A v \in ws : v <= w

\* C3: the relationship list holds exactly one edge for every inserted
\* (source, target, type) triple and none else, and the edge's weight is the
\* maximum of the weights inserted for the triple.
C3_OneEdgePerTripleMaxWeight ==
    /\ \A i, j \in 1..Len(relationships) :
          i # j => ~SameTriple(relationships[i], relationships[j])
    /\ \A k \in 1..Len(relationship_calls) :
          \E i \in 1..Len(relationships) : SameTriple(relationships[i], relationship_calls[k])
    /\ \A i \in 1..Len(relationships) :
          /\ \E k \in 1..Len(relationship_calls) :
                SameTriple(relationships[i], relationship_calls[k])
          /\ relationships[i].weight = MaxInsertedWeight(relationships[i])

\* (A,B,RELATED) inserted with a larger weight and later with a smaller one
C3_Witness ==
    /\ Len(relationships) = 1
    /\ \E k, l \in 1..Len(relationship_calls) :
          /\ k < l
          /\ SameTriple(relationship_calls[k], relationship_calls[l])
          /\ relationship_calls[k].weight > relationship_calls[l].weight
          /\ relationships[1].weight = relationship_calls[k].weight

RECURSIVE SumFrequency(_, _)
SumFrequency(calls, name) ==
    IF calls = <<>> THEN 0
    ELSE (IF Head(calls).name = name THEN Head(calls).frequency ELSE 0)
         + SumFrequency(Tail(calls), name)

InsertedModules(name) ==
    UNION {Range(concept_calls[k].source_modules) :
              k \in {i \in 1..Len(concept_calls) : concept_calls[i].name = name}}

MaxCandidates == 3

\* Names are sequences of characters.
Alphabet == {"a", "A", "b"}

United == <<"U", "n", "i", "t", "e", "d">>

UnitedStates == United \o <<" ", "S", "t", "a", "t", "e", "s">>

Cell == <<"C", "e", "l", "l">>

NamePool ==
    SeqsUpTo(Alphabet, 2) \cup {<<"a", "b", "a">>, United, UnitedStates, Cell}

\* str.lower() on the characters in use
LowerChar(c) ==
    CASE c = "A" -> "a"
      [] c = "U" -> "u"
      [] c = "S" -> "s"
      [] c = "C" -> "c"
      [] OTHER -> c

Lower(name) == [i \in 1..Len(name) |-> LowerChar(name[i])]

\* a in b for Python strings
IsSubstring(a, b) ==
    \E i \in 0..(Len(b) - Len(a)) : SubSeq(b, i + 1, i + Len(a)) = a

\* sorted(concepts, key=len, reverse=True): stable
RECURSIVE InsertByLenDesc(_, _)
InsertByLenDesc(sorted, e) ==
    IF sorted = <<>> THEN <<e>>
    ELSE IF Len(Head(sorted)) >= Len(e)
         THEN <<Head(sorted)>> \o InsertByLenDesc(Tail(sorted), e)
         ELSE <<e>> \o sorted

RECURSIVE SortByLenDesc(_)
SortByLenDesc(names) ==
    IF names = <<>> THEN <<>>
    ELSE InsertByLenDesc(SortByLenDesc(SubSeq(names, 1, Len(names) - 1)), names[Len(names)])

\* concept_lower in k.lower() and concept_lower != k.lower() for some k in kept
IsSubstringOfKept(concept, keptSoFar) ==
    \E i \in 1..Len(keptSoFar) :
        /\ IsSubstring(Lower(concept), Lower(keptSoFar[i]))
        /\ Lower(concept) # Lower(keptSoFar[i])

RECURSIVE DedupLoop(_, _)
DedupLoop(sorted_concepts, keptSoFar) ==
    IF sorted_concepts = <<>> THEN keptSoFar
    ELSE LET concept == Head(sorted_concepts)
         IN  DedupLoop(Tail(sorted_concepts),
                       IF IsSubstringOfKept(concept, keptSoFar)
                       THEN keptSoFar
                       ELSE Append(keptSoFar, concept))

\* the loop run over the candidates in the order given
DeduplicateUnsorted(names) == DedupLoop(names, <<>>)

\* _deduplicate_concepts(concepts)
DeduplicateConcepts(names) == DedupLoop(SortByLenDesc(names), <<>>)

InitDedup ==
    /\ dedup_pc = "start"
    /\ candidates \in SeqsUpTo(NamePool, MaxCandidates)
    /\ kept = <<>>
    /\ RRFIdle
    /\ KGIdle
    /\ WinIdle
    /\ AskIdle
    /\ ExtractIdle
    /\ ExpanderIdle
    /\ HybridIdle
    /\ ConcIdle
    /\ BuildIdle
    /\ LinkIdle
    /\ StudentIdle
    /\ PrereqIdle
    /\ CacheIdle
    /\ AdapterIdle
    /\ ChunkerIdle

deduplicate_concepts ==
    /\ dedup_pc = "start"
    /\ kept' = DeduplicateConcepts(candidates)
    /\ dedup_pc' = "done"
    /\ UNCHANGED candidates
    /\ UNCHANGED notDedup

NextDedup == deduplicate_concepts

SpecDedup == InitDedup /\ [][NextDedup]_vars

ProperSubstringCI(a, b) == IsSubstring(Lower(a), Lower(b)) /\ Lower(a) # Lower(b)

MaxChunkIds == 3
MaxWindow == 2

\* WindowRetriever.__init__(window_size=1)
SelfWindowSize == 1

\* The chunk store: module m1 with chunks 0..4, module m2 with chunks 0..1.
\* A chunk id is written <<module, index>>; <<"m0", 0>> names no stored chunk.
ChunkCount == [m \in {"m1", "m2"} |-> IF m = "m1" THEN 5 ELSE 2]

StoredChunkIds == {<<m, i>> : m \in DOMAIN ChunkCount, i \in 0..4} \cap
                  {c \in (DOMAIN ChunkCount) \X (0..4) : c[2] < ChunkCount[c[1]]}

UnknownChunkId == <<"m0", 0>>

ChunkNode(id) == [chunk_id |-> id, module_id |-> id[1], chunk_index |-> id[2]]

\* (:Chunk)-[:NEXT]->(:Chunk): each chunk of a module points to the following one
NEXT == {e \in StoredChunkIds \X StoredChunkIds :
            e[1][1] = e[2][1] /\ e[2][2] = e[1][2] + 1}

\* (center)-[:NEXT*1..n]->(next)
RECURSIVE After(_, _)
After(id, n) ==
    IF n <= 0 THEN {}
    ELSE LET succ == {e[2] : e \in {x \in NEXT : x[1] = id}}
         IN  succ \cup UNION {After(b, n - 1) : b \in succ}

\* (prev)-[:NEXT*1..n]->(center)
RECURSIVE Before(_, _)
Before(id, n) ==
    IF n <= 0 THEN {}
    ELSE LET pred == {e[1] : e \in {x \in NEXT : x[2] = id}}
         IN  pred \cup UNION {Before(b, n - 1) : b \in pred}

\* ORDER BY chunk.chunkIndex over a set of chunks of one module
RECURSIVE OrderByChunkIndex(_)
OrderByChunkIndex(ids) ==
    IF ids = {} THEN <<>>
    ELSE LET first == CHOOSE c \in ids : \A d \in ids : c[2] <= d[2]
         IN  <<ChunkNode(first)>> \o OrderByChunkIndex(ids \ {first})

\* Neo4jAdapter.get_chunk_window(chunk_id, window_before, window_after)
get_chunk_window(chunk_id, window_before, window_after) ==
    IF chunk_id \notin StoredChunkIds THEN <<>>
    ELSE OrderByChunkIndex(Before(chunk_id, window_before) \cup {chunk_id}
                           \cup After(chunk_id, window_after))

\* module ids compare as strings
ModuleRank(m) == CASE m = "m0" -> 0 [] m = "m1" -> 1 [] m = "m2" -> 2

\* (module_id, chunk_index) <= (module_id, chunk_index)
ReadingOrderLE(a, b) ==
    \/ ModuleRank(a.module_id) < ModuleRank(b.module_id)
    \/ a.module_id = b.module_id /\ a.chunk_index <= b.chunk_index

\* all_chunks.sort(key=lambda c: (module_id, chunk_index)): stable
RECURSIVE InsertReadingOrder(_, _)
InsertReadingOrder(sorted, e) ==
    IF sorted = <<>> THEN <<e>>
    ELSE IF ReadingOrderLE(Head(sorted), e)
         THEN <<Head(sorted)>> \o InsertReadingOrder(Tail(sorted), e)
         ELSE <<e>> \o sorted

RECURSIVE SortReadingOrder(_)
SortReadingOrder(cs) ==
    IF cs = <<>> THEN <<>>
    ELSE InsertReadingOrder(SortReadingOrder(SubSeq(cs, 1, Len(cs) - 1)), cs[Len(cs)])

\* the inner loop: for chunk in window_chunks
RECURSIVE AddWindowChunks(_, _, _, _)
AddWindowChunks(acc, window_chunks, chunk_id, dedup) ==
    IF window_chunks = <<>> THEN acc
    ELSE LET chunk == Head(window_chunks)
         IN  IF dedup /\ chunk.chunk_id \in acc.seen_ids
             THEN AddWindowChunks(acc, Tail(window_chunks), chunk_id, dedup)
             ELSE AddWindowChunks(
                      [seen_ids |-> IF dedup THEN acc.seen_ids \cup {chunk.chunk_id}
                                    ELSE acc.seen_ids,
                       chunks |-> Append(acc.chunks,
                                         [chunk_id |-> chunk.chunk_id,
                                          module_id |-> chunk.module_id,
                                          chunk_index |-> chunk.chunk_index,
                                          is_original_hit |-> chunk.chunk_id = chunk_id])],
                      Tail(window_chunks), chunk_id, dedup)

\* the outer loop: for chunk_id in chunk_ids
RECURSIVE CollectWindows(_, _, _, _)
CollectWindows(acc, ids, w, dedup) ==
    IF ids = <<>> THEN acc.chunks
    ELSE CollectWindows(AddWindowChunks(acc, get_chunk_window(Head(ids), w, w), Head(ids), dedup),
                        Tail(ids), w, dedup)

\* window_size = window_size or self.window_size: None (-1) and 0 are falsy
EffectiveWindow(w) == IF w = -1 \/ w = 0 THEN SelfWindowSize ELSE w

\* the collection without the final sort
RetrieveWithWindowUnsorted(ids, w, dedup) ==
    CollectWindows([seen_ids |-> {}, chunks |-> <<>>], ids, EffectiveWindow(w), dedup)

\* a retrieval whose seen_ids check is never applied
RetrieveWithWindowNoDedup(ids, w, dedup) ==
    SortReadingOrder(CollectWindows([seen_ids |-> {}, chunks |-> <<>>], ids,
                                    EffectiveWindow(w), FALSE))

\* WindowRetriever.retrieve_with_window(chunk_ids, window_size, deduplicate)
RetrieveWithWindow(ids, w, dedup) ==
    SortReadingOrder(CollectWindows([seen_ids |-> {}, chunks |-> <<>>], ids,
                                    EffectiveWindow(w), dedup))

InitWin ==
    /\ win_pc = "start"
    /\ chunk_ids \in SeqsUpTo(StoredChunkIds \cup {UnknownChunkId}, MaxChunkIds)
    /\ window_size \in (-1)..MaxWindow
    /\ deduplicate \in BOOLEAN
    /\ all_chunks = <<>>
    /\ RRFIdle
    /\ KGIdle
    /\ DedupIdle
    /\ AskIdle
    /\ ExtractIdle
    /\ ExpanderIdle
    /\ HybridIdle
    /\ ConcIdle
    /\ BuildIdle
    /\ LinkIdle
    /\ StudentIdle
    /\ PrereqIdle
    /\ CacheIdle
    /\ AdapterIdle
    /\ ChunkerIdle

retrieve_with_window ==
    /\ win_pc = "start"
    /\ all_chunks' = RetrieveWithWindow(chunk_ids, window_size, deduplicate)
    /\ win_pc' = "done"
    /\ UNCHANGED <<chunk_ids, window_size, deduplicate>>
    /\ UNCHANGED notWin

NextWin == retrieve_with_window

SpecWin == InitWin /\ [][NextWin]_vars

\* the stored chunks of the hit's module at most w positions away from it
Neighbourhood(id, w) ==
    {c \in StoredChunkIds : /\ id \in StoredChunkIds
                            /\ c[1] = id[1]
                            /\ c[2] >= id[2] - w
                            /\ c[2] <= id[2] + w}

\* C6: the output holds exactly the hits and their neighbours within the
\* window, in (module_id, chunk_index) ascending order, whatever the order and
\* module mix of the input; window 1 around chunk 2 of m1 gives chunks 1, 2, 3
\* with only chunk 2 flagged as the original hit.
C6_WindowReadingOrder ==
    win_pc = "done" =>
        /\ {all_chunks[i].chunk_id : i \in 1..Len(all_chunks)}
              = UNION {Neighbourhood(chunk_ids[k], EffectiveWindow(window_size)) :
                          k \in 1..Len(chunk_ids)}
        /\ \A i, j \in 1..Len(all_chunks) :
              i < j => ReadingOrderLE(all_chunks[i], all_chunks[j])
        /\ \A i \in 1..Len(all_chunks) :
              /\ all_chunks[i].module_id = all_chunks[i].chunk_id[1]
              /\ all_chunks[i].chunk_index = all_chunks[i].chunk_id[2]
        /\ (chunk_ids = <<(<<"m1", 2>>)>> /\ window_size = 1)
              => /\ [i \in 1..Len(all_chunks) |-> all_chunks[i].chunk_id]
                        = << <<"m1", 1>>, <<"m1", 2>>, <<"m1", 3>> >>
                 /\ [i \in 1..Len(all_chunks) |-> all_chunks[i].is_original_hit]
                        = <<FALSE, TRUE, FALSE>>

\* hits given out of reading order and from two modules
C6_Witness ==
    /\ win_pc = "done"
    /\ chunk_ids = << <<"m2", 0>>, <<"m1", 3>>, <<"m1", 0>> >>
    /\ window_size = 1
    /\ deduplicate
    /\ [i \in 1..Len(all_chunks) |-> all_chunks[i].chunk_id]
          = << <<"m1", 0>>, <<"m1", 1>>, <<"m1", 2>>, <<"m1", 3>>, <<"m1", 4>>,
               <<"m2", 0>>, <<"m2", 1>> >>

\* ======================================================================
\* POST /ask (api/routes/ask.py, ask_question)
\* ======================================================================
MaxAskHits == 2

\* texts are sequences of words; the question is one opaque word
Question == <<"question">>

AskConcepts == {<<>>, <<"c1">>, <<"c1", "c2">>}

\* a retrieved chunk; id "" is a chunk without an id
AskChunks == [id : {"", "k1", "k2"}]

\* what retrieve_window_text gives back: merged text blocks per module
WindowBlocks == {<<>>, <<[block |-> "m1", chunk_count |-> 3]>>}

Pending == [status |-> 0, detail |-> "", expanded_concepts_none |-> TRUE,
            expanded_concepts |-> <<>>, retrieved_count |-> 0]

\* the except clauses of ask_question, in order
HTTPStatus(exception) ==
    CASE exception = "ContentNotFoundError" -> 404
      [] exception = "LLMGenerationError" -> 503
      [] OTHER -> 500

ErrorDetail(exception) ==
    CASE exception = "ContentNotFoundError" -> "No relevant content found for this question"
      [] exception = "LLMGenerationError" -> "LLM service error"
      [] OTHER -> "Internal server error"

Failed(exception) ==
    [Pending EXCEPT !.status = HTTPStatus(exception), !.detail = ErrorDetail(exception)]

\* an expansion step without its own try/except: the error reaches the handler's
\* outer except clauses
ExpansionErrorPropagates(exception) == [continue |-> FALSE, exception |-> exception]

\* except Exception as e: logger.warning("KG expansion failed, continuing without it")
OnExpansionError(exception) == [continue |-> TRUE, exception |-> exception]

\* except Exception as e: logger.warning("Window retrieval failed, using original chunks")
OnWindowError(exception) == [continue |-> TRUE, exception |-> exception]

\* a handler that goes on to generation whatever retrieval returned
ContinueAfterRetrieval(chunks) == "window"

\* if not retrieved_chunks: raise ContentNotFoundError(...)
AfterRetrieval(chunks) == IF chunks = <<>> THEN "ContentNotFoundError" ELSE "window"

InitAsk ==
    /\ ask_pc = "subject"
    /\ body \in [subject_known : BOOLEAN, use_kg_expansion : BOOLEAN,
                 use_window_retrieval : BOOLEAN]
    /\ settings \in [rag_kg_expansion : BOOLEAN, rag_window_retrieval : BOOLEAN,
                     vector_backend : {"opensearch", "neo4j", "hybrid"}]
    /\ query = <<>>
    /\ expanded_concepts = <<>>
    /\ retrieved_chunks = <<>>
    /\ response = Pending
    /\ ask_trace = [expansion_raised |-> FALSE, window_raised |-> FALSE,
                    other_fault |-> FALSE,
                    retrieve_calls |-> 0, retrieve_query |-> <<>>,
                    retrieve_returned |-> "nothing", original_chunks |-> <<>>,
                    llm_calls |-> 0, llm_context |-> <<>>]
    /\ RRFIdle
    /\ KGIdle
    /\ DedupIdle
    /\ WinIdle
    /\ ExtractIdle
    /\ ExpanderIdle
    /\ HybridIdle
    /\ ConcIdle
    /\ BuildIdle
    /\ LinkIdle
    /\ StudentIdle
    /\ PrereqIdle
    /\ CacheIdle
    /\ AdapterIdle
    /\ ChunkerIdle

\* subject_config = get_subject(body.subject): KeyError for an unknown subject
AskGetSubject ==
    /\ ask_pc = "subject"
    /\ IF body.subject_known
       THEN /\ ask_pc' = "expansion"
            /\ query' = Question
            /\ UNCHANGED <<response, ask_trace>>
       ELSE /\ ask_pc' = "done"
            /\ response' = Failed("KeyError")
            /\ ask_trace' = [ask_trace EXCEPT !.other_fault = TRUE]
            /\ UNCHANGED query
    /\ UNCHANGED <<body, settings, expanded_concepts, retrieved_chunks>>
    /\ UNCHANGED notAsk

\* Step 1: knowledge graph expansion, inside its own try/except
AskExpansion ==
    /\ ask_pc = "expansion"
    /\ IF body.use_kg_expansion /\ settings.rag_kg_expansion
       THEN \/ \* get_all_concepts_from_neo4j returns no concepts
               /\ ask_pc' = "retrieval"
               /\ UNCHANGED <<query, expanded_concepts, response, ask_trace>>
            \/ \* get_kg_expander or expand_query raises
               LET handled == OnExpansionError("Exception")
               IN  /\ ask_trace' = [ask_trace EXCEPT !.expansion_raised = TRUE]
                   /\ IF handled.continue
                      THEN /\ ask_pc' = "retrieval"
                           /\ UNCHANGED response
                      ELSE /\ ask_pc' = "done"
                           /\ response' = Failed(handled.exception)
                   /\ UNCHANGED <<query, expanded_concepts>>
            \/ \* expand_query returns: expanded_query = query + " " + concepts
               \E terms \in AskConcepts :
                   /\ expanded_concepts' = terms
                   /\ query' = Question \o terms
                   /\ ask_pc' = "retrieval"
                   /\ UNCHANGED <<response, ask_trace>>
       ELSE /\ ask_pc' = "retrieval"
            /\ UNCHANGED <<query, expanded_concepts, response, ask_trace>>
    /\ UNCHANGED <<body, settings, retrieved_chunks>>
    /\ UNCHANGED notAsk

\* Step 2: get_retriever(subject_id).retrieve(query, top_k)
AskRetrieval ==
    /\ ask_pc = "retrieval"
    /\ \/ \* get_retriever raises (no connection)
          /\ ask_pc' = "done"
          /\ response' = Failed("Exception")
          /\ ask_trace' = [ask_trace EXCEPT !.other_fault = TRUE]
          /\ UNCHANGED retrieved_chunks
       \/ \* retrieve raises
          /\ ask_pc' = "done"
          /\ response' = Failed("Exception")
          /\ ask_trace' = [ask_trace EXCEPT !.other_fault = TRUE,
                                            !.retrieve_calls = @ + 1,
                                            !.retrieve_query = query,
                                            !.retrieve_returned = "raised"]
          /\ UNCHANGED retrieved_chunks
       \/ \* retrieve returns a list of chunks
          \E chunks \in SeqsUpTo(AskChunks, MaxAskHits) :
              /\ retrieved_chunks' = chunks
              /\ ask_trace' = [ask_trace EXCEPT
                                  !.retrieve_calls = @ + 1,
                                  !.retrieve_query = query,
                                  !.retrieve_returned =
                                      IF chunks = <<>> THEN "empty" ELSE "chunks",
                                  !.original_chunks = chunks]
              /\ IF AfterRetrieval(chunks) = "window"
                 THEN /\ ask_pc' = "window"
                      /\ response' = [response EXCEPT !.retrieved_count = Len(chunks)]
                 ELSE /\ ask_pc' = "done"
                      /\ response' = Failed(AfterRetrieval(chunks))
    /\ UNCHANGED <<body, settings, query, expanded_concepts>>
    /\ UNCHANGED notAsk

\* Step 2b: window expansion, inside its own try/except
AskWindow ==
    /\ ask_pc = "window"
    /\ IF /\ body.use_window_retrieval
          /\ settings.rag_window_retrieval
          /\ settings.vector_backend \in {"neo4j", "hybrid"}
       THEN \/ \* get_window_retriever or retrieve_window_text raises
               LET handled == OnWindowError("Exception")
               IN  /\ ask_trace' = [ask_trace EXCEPT !.window_raised = TRUE]
                   /\ IF handled.continue
                      THEN /\ ask_pc' = "generation"
                           /\ UNCHANGED response
                      ELSE /\ ask_pc' = "done"
                           /\ response' = Failed(handled.exception)
                   /\ UNCHANGED retrieved_chunks
            \/ \* no chunk has an id: nothing to expand
               /\ \A i \in 1..Len(retrieved_chunks) : retrieved_chunks[i].id = ""
               /\ ask_pc' = "generation"
               /\ UNCHANGED <<retrieved_chunks, response, ask_trace>>
            \/ \* retrieve_window_text returns; a non-empty result replaces the chunks
               /\ \E i \in 1..Len(retrieved_chunks) : retrieved_chunks[i].id # ""
               /\ \E window_results \in WindowBlocks :
                      retrieved_chunks' = IF window_results # <<>>
                                          THEN window_results
                                          ELSE retrieved_chunks
               /\ ask_pc' = "generation"
               /\ UNCHANGED <<response, ask_trace>>
       ELSE /\ ask_pc' = "generation"
            /\ UNCHANGED <<retrieved_chunks, response, ask_trace>>
    /\ UNCHANGED <<body, settings, query, expanded_concepts>>
    /\ UNCHANGED notAsk

\* Steps 3 and 4: llm_client.answer_question and the response
AskGeneration ==
    /\ ask_pc = "generation"
    /\ ask_pc' = "done"
    /\ \/ /\ response' = Failed("LLMGenerationError")
          /\ ask_trace' = [ask_trace EXCEPT !.other_fault = TRUE,
                                            !.llm_calls = @ + 1,
                                            !.llm_context = retrieved_chunks]
       \/ /\ response' = Failed("Exception")
          /\ ask_trace' = [ask_trace EXCEPT !.other_fault = TRUE,
                                            !.llm_calls = @ + 1,
                                            !.llm_context = retrieved_chunks]
       \/ /\ response' = [response EXCEPT
                             !.status = 200,
                             !.expanded_concepts_none = (expanded_concepts = <<>>),
                             !.expanded_concepts = expanded_concepts]
          /\ ask_trace' = [ask_trace EXCEPT !.llm_calls = @ + 1,
                                            !.llm_context = retrieved_chunks]
    /\ UNCHANGED <<body, settings, query, expanded_concepts, retrieved_chunks>>
    /\ UNCHANGED notAsk

NextAsk ==
    \/ AskGetSubject
    \/ AskExpansion
    \/ AskRetrieval
    \/ AskWindow
    \/ AskGeneration

SpecAsk == InitAsk /\ [][NextAsk]_vars

\* C7: a retrieval that returns zero chunks ends the request with 404 "No
\* relevant content found"; retrieval was called exactly once and answer
\* generation is never reached.
C7_NoContentIs404 ==
    ask_trace.retrieve_returned = "empty" =>
        /\ ask_pc = "done"
        /\ response.status = 404
        /\ response.detail = "No relevant content found for this question"
        /\ ask_trace.retrieve_calls = 1
        /\ ask_trace.llm_calls = 0

C7_Witness ==
    /\ ask_pc = "done"
    /\ ask_trace.retrieve_returned = "empty"
    /\ response.status = 404

\* C8: an exception in query expansion leaves the question as the retrieval
\* query and no expanded concepts in the response; an exception in window
\* expansion leaves the retrieved chunks as the generation context; neither
\* fails the request: with no other fault it ends with status 200.
C8_ExpansionFailuresRecovered ==
    /\ (ask_trace.expansion_raised /\ ask_trace.retrieve_calls > 0)
          => ask_trace.retrieve_query = Question
    /\ (ask_trace.expansion_raised /\ ask_pc = "done" /\ response.status = 200)
          => response.expanded_concepts_none
    /\ (ask_trace.window_raised /\ ask_trace.llm_calls > 0)
          => ask_trace.llm_context = ask_trace.original_chunks
    /\ ((ask_trace.expansion_raised \/ ask_trace.window_raised) /\ ask_pc = "done"
           /\ ~ask_trace.other_fault /\ ask_trace.retrieve_returned # "empty")
          => response.status = 200
    /\ ((ask_trace.expansion_raised \/ ask_trace.window_raised) /\ ask_pc \notin {"done"})
          => response.status = 0

\* both expansions raised and the request was answered
C8_Witness ==
    /\ ask_pc = "done"
    /\ ask_trace.expansion_raised
    /\ ask_trace.window_raised
    /\ response.status = 200
    /\ ask_trace.llm_context = ask_trace.original_chunks

\* ======================================================================
\* ConceptExtractor: ensemble extraction (nlp/concept_extractor.py)
\* ======================================================================
MaxMatches == 2

KnownConcepts == {"x", "y", "z"}

\* scores in thousandths: entity match 0.8, noun chunk match 0.6
NerScores == {800, 600}

\* 1 / (1 + yake_score) for two keyword scores
YakeScores == {500, 900}

\* extract_concepts(top_k=10); smaller values cut the ranking
TopKChoices == {1, 2, 10}

NerMatches == [name : KnownConcepts, score : NerScores, strategy : {"ner"}]

YakeMatches == [name : KnownConcepts, score : YakeScores, strategy : {"yake"}]

\* ConceptExtractor._deduplicate: one match per name, the highest score, at the
\* position of the name's first match
RECURSIVE Deduplicate(_, _)
Deduplicate(found, seen) ==
    IF found = <<>> THEN seen
    ELSE LET match == Head(found)
             at == {i \in 1..Len(seen) : seen[i].name = match.name}
         IN  Deduplicate(Tail(found),
                 IF at = {} THEN Append(seen, match)
                 ELSE IF \E i \in at : match.score > seen[i].score
                      THEN [i \in 1..Len(seen) |-> IF i \in at THEN match ELSE seen[i]]
                      ELSE seen)

\* what a strategy contributes inside the try of _extract_ensemble:
\* _extract_ner returns [] when spaCy is not available; a raise leaves nothing
ExtractNer(status, found) == IF status = "ok" THEN Deduplicate(found, <<>>) ELSE <<>>

\* _extract_yake does not deduplicate
ExtractYake(found) == found

\* all_matches[match.name].append(match), an insertion-ordered dict of lists
RECURSIVE CollectMatches(_, _)
CollectMatches(all_matches, found) ==
    IF found = <<>> THEN all_matches
    ELSE LET match == Head(found)
         IN  CollectMatches(
                 IF \E i \in 1..Len(all_matches) : all_matches[i].name = match.name
                 THEN [i \in 1..Len(all_matches) |->
                          IF all_matches[i].name = match.name
                          THEN [all_matches[i] EXCEPT !.matches_list = Append(@, match)]
                          ELSE all_matches[i]]
                 ELSE Append(all_matches, [name |-> match.name, matches_list |-> <<match>>]),
                 Tail(found))

MaxScore(matches_list) ==
    CHOOSE m \in {matches_list[i].score : i \in 1..Len(matches_list)} :
        \A i \in 1..Len(matches_list) : matches_list[i].score <= m

\* a boost that counts the matches of the concept instead of its strategies
BoostedScoreCountsMatches(matches_list) ==
    Min2(1000, (MaxScore(matches_list) * (10 + 2 * (Len(matches_list) - 1))) \div 10)

\* min(1.0, max_score * (1 + 0.2 * (strategy_count - 1)))
BoostedScore(matches_list) ==
    LET strategy_count == Cardinality({matches_list[i].strategy : i \in 1..Len(matches_list)})
    IN  Min2(1000, (MaxScore(matches_list) * (10 + 2 * (strategy_count - 1))) \div 10)

FuseMatches(all_matches) ==
    [i \in 1..Len(all_matches) |->
        [name |-> all_matches[i].name,
         score |-> BoostedScore(all_matches[i].matches_list),
         strategy |-> "ensemble"]]

\* one try around both strategies: a raise in the first loses the second
ExtractEnsembleOneTry(status, nerFound, yakeFound) ==
    IF status = "raises" THEN <<>>
    ELSE FuseMatches(CollectMatches(CollectMatches(<<>>, ExtractNer(status, nerFound)),
                                    ExtractYake(yakeFound)))

\* ConceptExtractor._extract_ensemble: each strategy in its own try
ExtractEnsemble(status, nerFound, yakeFound) ==
    FuseMatches(CollectMatches(CollectMatches(<<>>, ExtractNer(status, nerFound)),
                               ExtractYake(yakeFound)))

\* ConceptExtractor.extract_concepts(text, "ensemble", top_k)
ExtractConcepts(status, nerFound, yakeFound, topk) ==
    Take(SortByScoreDesc(ExtractEnsemble(status, nerFound, yakeFound)), topk)

InitExtract ==
    /\ extract_pc = "start"
    /\ ner_status \in {"ok", "unavailable", "raises"}
    /\ ner_found \in SeqsUpTo(NerMatches, MaxMatches)
    /\ yake_found \in SeqsUpTo(YakeMatches, MaxMatches)
    /\ extract_top_k \in TopKChoices
    /\ matches = <<>>
    /\ RRFIdle
    /\ KGIdle
    /\ DedupIdle
    /\ WinIdle
    /\ AskIdle
    /\ ExpanderIdle
    /\ HybridIdle
    /\ ConcIdle
    /\ BuildIdle
    /\ LinkIdle
    /\ StudentIdle
    /\ PrereqIdle
    /\ CacheIdle
    /\ AdapterIdle
    /\ ChunkerIdle

extract_ensemble ==
    /\ extract_pc = "start"
    /\ matches' = ExtractEnsemble(ner_status, ner_found, yake_found)
    /\ extract_pc' = "done_ensemble"
    /\ UNCHANGED <<ner_status, ner_found, yake_found, extract_top_k>>
    /\ UNCHANGED notExtract

extract_concepts ==
    /\ extract_pc = "start"
    /\ matches' = ExtractConcepts(ner_status, ner_found, yake_found, extract_top_k)
    /\ extract_pc' = "done_extract"
    /\ UNCHANGED <<ner_status, ner_found, yake_found, extract_top_k>>
    /\ UNCHANGED notExtract

NextExtract ==
    \/ extract_ensemble
    \/ extract_concepts

SpecExtract == InitExtract /\ [][NextExtract]_vars

NamesOf(found) == {found[i].name : i \in 1..Len(found)}

\* the entries of ms whose name is in S, in the order of ms
RECURSIVE Restrict(_, _)
Restrict(ms, S) ==
    IF ms = <<>> THEN <<>>
    ELSE IF Head(ms).name \in S THEN <<Head(ms)>> \o Restrict(Tail(ms), S)
         ELSE Restrict(Tail(ms), S)

\* the same call on the same text with the named-entity strategy healthy
HealthyRun ==
    IF extract_pc = "done_ensemble"
    THEN ExtractEnsemble("ok", ner_found, yake_found)
    ELSE ExtractConcepts("ok", ner_found, yake_found, extract_top_k)

ScoreIn(ms, name) == (CHOOSE m \in Range(ms) : m.name = name).score

\* C9: with the named-entity strategy unavailable or raising, ensemble
\* extraction returns every keyword match (extract_concepts: the top_k best of
\* them) with the keyword score, and the concepts the named-entity strategy
\* would not have found carry the same scores in the same relative order as in
\* the healthy run.
C9_NerFailureKeepsYake ==
    (extract_pc \in {"done_ensemble", "done_extract"} /\ ner_status # "ok") =>
        LET yakeOnly == NamesOf(yake_found) \ NamesOf(ner_found)
            common == NamesOf(matches) \cap NamesOf(HealthyRun) \cap yakeOnly
        IN  /\ NamesOf(matches) \subseteq NamesOf(yake_found)
            /\ extract_pc = "done_ensemble" =>
                  /\ NamesOf(matches) = NamesOf(yake_found)
                  /\ yakeOnly \subseteq NamesOf(HealthyRun)
            /\ extract_pc = "done_extract" =>
                  Len(matches) = Min2(extract_top_k, Cardinality(NamesOf(yake_found)))
            /\ \A i, j \in 1..Len(matches) : i # j => matches[i].name # matches[j].name
            /\ \A i \in 1..Len(matches) : matches[i].score = MaxScore(
                  SelectSeq(yake_found, LAMBDA m : m.name = matches[i].name))
            /\ \A n \in common : ScoreIn(matches, n) = ScoreIn(HealthyRun, n)
            /\ Restrict(matches, common) = Restrict(HealthyRun, common)

\* the healthy run ranks a named-entity concept between two keyword-only ones
C9_Witness ==
    /\ extract_pc = "done_extract"
    /\ ner_status = "raises"
    /\ Len(matches) = 2
    /\ NamesOf(ner_found) \cap NamesOf(yake_found) = {}
    /\ Len(HealthyRun) = 3
    /\ HealthyRun[2].name \in NamesOf(ner_found)

\* ---------------------------------------------------------------------------
\* KGBuilder._compute_importance_scores (backend/app/kg/builder.py)
\* ---------------------------------------------------------------------------

MaxEdges == 2

ImportanceNames == {"A", "B", "C"}

\* the edge types _compute_importance_scores copies into the nx.Graph
ImportanceEdgeTypes == {"RELATED", "PREREQ"}

\* relationships as build_from_records leaves them before the scoring step:
\* COVERS from a module to a concept (weight 1.0), RELATED between a sorted
\* pair (weight min(count / 10, 1), count >= 5), PREREQ in either direction
\* (weight 0.8); weights in tenths
BuiltRelationships(names) ==
    {[source |-> "m1", target |-> c, type |-> "COVERS", weight |-> 10] : c \in names}
    \cup {r \in [source : names, target : names, type : {"RELATED"}, weight : {5, 10}] :
            \E a, b \in names : a # b /\ r.source = a /\ r.target = b
                                /\ <<a, b>> \in {<<"A", "B">>, <<"A", "C">>, <<"B", "C">>}}
    \cup {r \in [source : names, target : names, type : {"PREREQ"}, weight : {8}] :
            r.source # r.target}

\* a concept as build_from_records adds it: importance_score still the default
BuiltConcept == [frequency |-> 1, source_modules |-> <<"m1">>, importance_score |-> ZeroScore]

\* fixed-point unit of a PageRank value: 1.0 is PRScale
PRScale == 100000000

\* nx.pagerank defaults: alpha = 0.85, max_iter = 100, tol = 1.0e-6
PRTeleportPct == 15

PRMaxIter == 100

PRTol == PRScale \div 1000000

Abs(v) == IF v < 0 THEN 0 - v ELSE v

MaxOf(S) == CHOOSE v \in S : \A w \in S : w <= v

RECURSIVE SumF(_, _)
SumF(f, S) ==
    IF S = {} THEN 0
    ELSE LET n == CHOOSE m \in S : TRUE IN f[n] + SumF(f, S \ {n})

\* G.add_edge on an undirected nx.Graph: a later edge between the same two
\* nodes overwrites the weight attribute; 0 stands for "no edge"
GraphWeight(rels, a, b) ==
    LET I == {i \in 1..Len(rels) :
                /\ rels[i].type \in ImportanceEdgeTypes
                /\ {rels[i].source, rels[i].target} = {a, b}}
    IN  IF I = {} THEN 0 ELSE rels[MaxOf(I)].weight

\* G.add_node for every concept name, G.add_edge adds its endpoints
GraphNodes(cs, rels) ==
    DOMAIN cs \cup UNION {{rels[i].source, rels[i].target} :
                            i \in {j \in 1..Len(rels) : rels[j].type \in ImportanceEdgeTypes}}

\* alpha * v
PRDamp(v) == v - (PRTeleportPct * v) \div 100

\* one power iteration: x = alpha * (x W + sum(x[dangling]) / N) + (1 - alpha) / N,
\* W the row-normalised weight matrix, dangling the nodes with no edge
PRStep(x, nodes, W) ==
    LET N == Cardinality(nodes)
        out == [n \in nodes |-> SumF([m \in nodes |-> W[n][m]], nodes)]
        dangling == {n \in nodes : out[n] = 0}
        ds == PRDamp(SumF(x, dangling))
    IN  [n \in nodes |->
            SumF([m \in nodes |->
                    IF W[m][n] > 0 THEN PRDamp((x[m] * W[m][n]) \div out[m]) ELSE 0], nodes)
            + ds \div N + (PRTeleportPct * PRScale) \div (100 * N)]

\* err = sum(|x[n] - xlast[n]|)
PRErr(x, xlast, nodes) == SumF([n \in nodes |-> Abs(x[n] - xlast[n])], nodes)

\* one pass of the loop body: a run that has returned stays as it is
PRAdvance(st, nodes, W) ==
    IF st.converged
    THEN st
    ELSE CHOOSE r \in {[converged |-> PRErr(xnew, st.x, nodes) < Cardinality(nodes) * PRTol,
                        x |-> xnew] : xnew \in {PRStep(st.x, nodes, W)}} : TRUE

\* k passes of the loop, evaluated as two halves: for _ in range(k)
RECURSIVE PRIterate(_, _, _, _)
PRIterate(st, nodes, W, k) ==
    IF k = 0 THEN st
    ELSE IF k = 1 THEN PRAdvance(st, nodes, W)
    ELSE CHOOSE r \in {PRIterate(half, nodes, W, k - k \div 2) :
                        half \in {PRIterate(st, nodes, W, k \div 2)}} : TRUE

\* nx.pagerank(G, weight="weight"): converged is FALSE when max_iter passes
\* end without err < N * tol (nx.PowerIterationFailedConvergence)
PageRank(nodes, W) ==
    PRIterate([converged |-> FALSE, x |-> [n \in nodes |-> PRScale \div Cardinality(nodes)]],
              nodes, W, PRMaxIter)

\* the concepts after the normalisation loop: importance_score = pr_score / max_pr
NormalisedScores(cs, pagerank) ==
    LET max_pr == MaxOf({pagerank[n] : n \in DOMAIN pagerank})
    IN  [n \in DOMAIN cs |->
            IF n \in DOMAIN pagerank
            THEN [cs[n] EXCEPT !.importance_score = [num |-> pagerank[n], den |-> max_pr]]
            ELSE cs[n]]

InitImportance ==
    /\ \E names \in SUBSET ImportanceNames :
          /\ concepts = [n \in names |-> BuiltConcept]
          /\ relationships \in
                {rs \in InjSeqs(BuiltRelationships(names), MaxEdges) :
                    \A i, j \in 1..Len(rs) :
                        i # j => <<rs[i].source, rs[i].target, rs[i].type>>
                                 # <<rs[j].source, rs[j].target, rs[j].type>>}
    /\ concept_calls = <<>>
    /\ relationship_calls = <<>>
    /\ importance_pc = "start"
    /\ RRFIdle
    /\ DedupIdle
    /\ WinIdle
    /\ AskIdle
    /\ ExtractIdle
    /\ ExpanderIdle
    /\ HybridIdle
    /\ ConcIdle
    /\ BuildIdle
    /\ LinkIdle
    /\ StudentIdle
    /\ PrereqIdle
    /\ CacheIdle
    /\ AdapterIdle
    /\ ChunkerIdle

compute_importance_scores ==
    /\ importance_pc = "start"
    /\ LET nodes == GraphNodes(concepts, relationships)
           W == [a \in nodes |-> [b \in nodes |-> GraphWeight(relationships, a, b)]]
       IN  IF Cardinality(nodes) > 0
           THEN LET pagerank == PageRank(nodes, W)
                IN  IF pagerank.converged
                    THEN /\ concepts' = NormalisedScores(concepts, pagerank.x)
                         /\ importance_pc' = "done"
                    ELSE \* nx.PowerIterationFailedConvergence leaves the method
                         /\ concepts' = concepts
                         /\ importance_pc' = "failed"
           ELSE /\ concepts' = concepts
                /\ importance_pc' = "done"
    /\ UNCHANGED <<concept_calls, relationships, relationship_calls>>
    /\ UNCHANGED notKG

NextImportance == compute_importance_scores

SpecImportance == InitImportance /\ [][NextImportance]_vars

HasImportanceEdge ==
    \E i \in 1..Len(relationships) : relationships[i].type \in ImportanceEdgeTypes

ScoreIsOne(s) == s.num = s.den

ScoreInUnit(s) == 0 <= s.num /\ s.num <= s.den

ScoreIsZero(s) == s.num = 0

\* With at least one RELATED or PREREQ edge the scoring step ends with some
\* concept at exactly 1.0 and every concept in [0, 1].
ImportanceMaxIsOne ==
    (importance_pc = "done" /\ HasImportanceEdge)
        => /\ \E n \in DOMAIN concepts : ScoreIsOne(concepts[n].importance_score)
           /\ \A n \in DOMAIN concepts : ScoreInUnit(concepts[n].importance_score)

\* The scoring step always ends normally on a built graph.
ImportanceNeverFails == importance_pc # "failed"

\* Without a RELATED or PREREQ edge PageRank still runs whenever there is a
\* concept, and the normalisation leaves every concept at exactly 1.0.
ImportanceNoEdgeAllOne ==
    (importance_pc = "done" /\ ~HasImportanceEdge)
        => \A n \in DOMAIN concepts : ScoreIsOne(concepts[n].importance_score)

\* C10: after build_from_records on a graph with at least one RELATED or
\* PREREQ edge the maximum importance_score over all concepts is exactly 1.0
\* and every importance_score lies in [0, 1]; if no such edge exists, every
\* concept's importance_score is 0 (PageRank is skipped).
C10_ImportanceNormalised ==
    importance_pc = "done"
        => IF HasImportanceEdge
           THEN /\ \E n \in DOMAIN concepts : ScoreIsOne(concepts[n].importance_score)
                /\ \A n \in DOMAIN concepts : ScoreInUnit(concepts[n].importance_score)
           ELSE \A n \in DOMAIN concepts : ScoreIsZero(concepts[n].importance_score)

\* ---------------------------------------------------------------------------
\* KGExpander (backend/app/rag/kg_expansion.py)
\* ---------------------------------------------------------------------------

MaxQueryLen == 3

QueryAlphabet == {"A", "b"}

Queries == SeqsUpTo(QueryAlphabet, MaxQueryLen)

KnownPool ==
    {<<"a">>, <<"A">>, <<"b">>, <<"a", "b">>, <<"b", "A">>, <<"a", "b", "a">>}

ExtractionStrategies == {"simple", "ensemble", "ner", "yake"}

\* extract_concepts(..., top_k=5)
QueryTopK == 5

\* found_concepts[:5]
SimpleMax == 5

RECURSIVE SetToSeq(_)
SetToSeq(S) ==
    IF S = {} THEN <<>>
    ELSE LET x == CHOOSE y \in S : TRUE IN <<x>> \o SetToSeq(S \ {x})

Reverse(s) == [i \in 1..Len(s) |-> s[Len(s) + 1 - i]]

\* every order in which iterating a Python set can yield its elements
RECURSIVE Perms(_)
Perms(S) ==
    IF S = {} THEN {<<>>}
    ELSE UNION {{<<x>> \o p : p \in Perms(S \ {x})} : x \in S}

\* The ranked matches extract_concepts has before its [:top_k] cut: every name
\* comes out of _match_to_known, so from known_concepts; the "yake" strategy
\* is not deduplicated and may repeat a name.
RankedMatches(known) ==
    UNION {{SetToSeq(F), Reverse(SetToSeq(F)), SetToSeq(F) \o SetToSeq(F)} : F \in SUBSET known}

\* _match_to_known on a piece of the text (an entity, a noun chunk, a
\* keyword): the concepts that contain the piece or are contained in it
MatchableConcepts(q, known) ==
    {c \in known :
        \E i \in 1..Len(q) : \E j \in i..Len(q) :
            LET piece == SubSeq(Lower(q), i, j)
            IN  IsSubstring(Lower(c), piece) \/ IsSubstring(piece, Lower(c))}

\* what the try block meets: get_concept_extractor / set_known_concepts /
\* extract_concepts raising, or the ranked matches; extract_concepts returns
\* [] on an empty text
ExtractorOutcomes(q, known) ==
    {[raises |-> TRUE, ranked |-> <<>>]}
    \cup {[raises |-> FALSE, ranked |-> m] : m \in RankedMatches(MatchableConcepts(q, known))}

\* _extract_simple: one result per iteration order of the set
ExtractSimple(q, known) ==
    {Take(SortByLenDesc(found), SimpleMax) :
        found \in Perms({c \in known : IsSubstring(Lower(c), Lower(q))})}

\* a handler that lets the extractor's exception leave the method
ExtractorErrorPropagates == "raise"

\* except Exception: log and fall through to the simple extraction
OnExtractorError == "fallback"

\* matches[:top_k] inside extract_concepts, then [m.name for m in matches]
FoundConcepts(outcome) == Take(outcome.ranked, QueryTopK)

\* extract_concepts_from_query: the set of [pc, result] it can end with
ExtractConceptsFromQuery(q, known, strategy, outcome) ==
    IF strategy = "simple"
    THEN {[pc |-> "done", result |-> r] : r \in ExtractSimple(q, known)}
    ELSE IF outcome.raises /\ OnExtractorError = "raise"
    THEN {[pc |-> "raised", result |-> <<>>]}
    ELSE IF ~outcome.raises /\ FoundConcepts(outcome) # <<>>
    THEN {[pc |-> "done", result |-> FoundConcepts(outcome)]}
    ELSE {[pc |-> "done", result |-> r] : r \in ExtractSimple(q, known)}

InitExtractQuery ==
    /\ kgx_pc = "start"
    /\ kgx_query \in Queries
    /\ all_concepts \in SUBSET KnownPool
    /\ extraction_strategy \in ExtractionStrategies
    /\ extractor_outcome \in ExtractorOutcomes(kgx_query, all_concepts)
    /\ neighbor_lookup = <<>>
    /\ extracted = <<>>
    /\ expanded = <<>>
    /\ expanded_query = <<>>
    /\ RRFIdle
    /\ KGIdle
    /\ DedupIdle
    /\ WinIdle
    /\ AskIdle
    /\ ExtractIdle
    /\ HybridIdle
    /\ ConcIdle
    /\ BuildIdle
    /\ LinkIdle
    /\ StudentIdle
    /\ PrereqIdle
    /\ CacheIdle
    /\ AdapterIdle
    /\ ChunkerIdle

extract_concepts_from_query ==
    /\ kgx_pc = "start"
    /\ \E out \in ExtractConceptsFromQuery(kgx_query, all_concepts,
                                           extraction_strategy, extractor_outcome) :
          /\ kgx_pc' = out.pc
          /\ extracted' = out.result
    /\ UNCHANGED <<kgx_query, all_concepts, extraction_strategy, extractor_outcome,
                   neighbor_lookup, expanded, expanded_query>>
    /\ UNCHANGED notExpander

NextExtractQuery == extract_concepts_from_query

SpecExtractQuery == InitExtractQuery /\ [][NextExtractQuery]_vars

ContainedIn(q, known) == {c \in known : IsSubstring(Lower(c), Lower(q))}

\* r is a substring-only extraction: distinct known concepts contained in the
\* query, longest first, nothing longer left out, cut to five
IsSimpleExtraction(r, q, known) ==
    /\ Range(r) \subseteq ContainedIn(q, known)
    /\ \A i, j \in 1..Len(r) : i < j => r[i] # r[j] /\ Len(r[i]) >= Len(r[j])
    /\ Len(r) = Min2(SimpleMax, Cardinality(ContainedIn(q, known)))
    /\ \A c \in ContainedIn(q, known) \ Range(r) : \A i \in 1..Len(r) : Len(c) <= Len(r[i])

ExtractorFoundNothing ==
    extractor_outcome.raises \/ extractor_outcome.ranked = <<>>

\* C11: extract_concepts_from_query never raises and returns at most 5 concept
\* names, all from the known-concept set; whenever the multi-strategy
\* extractor raises or finds nothing, the result is the substring-only
\* extraction (known concepts contained case-insensitively in the query,
\* longest name first).
C11_ExtractionFallsBack ==
    /\ kgx_pc # "raised"
    /\ kgx_pc = "done" =>
          /\ Len(extracted) <= 5
          /\ Range(extracted) \subseteq all_concepts
          /\ (extraction_strategy = "simple" \/ ExtractorFoundNothing)
                => IsSimpleExtraction(extracted, kgx_query, all_concepts)

\* the extractor raised while six known concepts are contained in the query:
\* the fallback ran and cut its result to five
C11_Witness ==
    /\ kgx_pc = "done"
    /\ extraction_strategy = "ensemble"
    /\ extractor_outcome.raises
    /\ Cardinality(ContainedIn(kgx_query, all_concepts)) = 6
    /\ Len(extracted) = 5
    /\ Len(extracted[1]) = 3

\* ------------------------------------------------ KGExpander.expand_with_kg

MaxExpandConcepts == 2

ExpandInputPool == {<<"a">>, <<"b">>}

NeighborPool == {<<"a">>, <<"b">>, <<"n">>}

\* the lists extract_concepts_from_query hands over: names in rank order; the
\* "yake" strategy may repeat a name
ExpandInputs == SeqsUpTo(ExpandInputPool, MaxExpandConcepts)

\* query_concept_neighbors for one concept: it raises, or yields neighbour names
LookupResults == [fails : {TRUE}, names : {{}}] \cup [fails : {FALSE}, names : SUBSET NeighborPool]

\* neo4j_adapter is None (connect never succeeded) or answers per concept
AdapterStates(input) ==
    {[connected |-> FALSE, lookup |-> [c \in Range(input) |-> [fails |-> TRUE, names |-> {}]]]}
    \cup [connected : {TRUE}, lookup : [Range(input) -> LookupResults]]

\* except Exception: log and continue with the next concept
OnLookupError == "continue"

\* the loop after the try/except: the set it has built, or "raised"
RECURSIVE ExpandLoop(_, _, _, _)
ExpandLoop(input, i, lookup, acc) ==
    IF i > Len(input) THEN [pc |-> "done", names |-> acc]
    ELSE IF lookup[input[i]].fails
         THEN IF OnLookupError = "continue"
              THEN ExpandLoop(input, i + 1, lookup, acc)
              ELSE [pc |-> "raised", names |-> acc]
         ELSE ExpandLoop(input, i + 1, lookup, acc \cup lookup[input[i]].names)

\* expand_with_kg: the set of [pc, result] it can end with; list(expanded)
\* comes in the order the set iterates
ExpandWithKG(input, adapter) ==
    IF ~adapter.connected
    THEN {[pc |-> "done", result |-> input]}
    ELSE LET out == ExpandLoop(input, 1, adapter.lookup, Range(input))
         IN  IF out.pc = "raised"
             THEN {[pc |-> "raised", result |-> <<>>]}
             ELSE {[pc |-> "done", result |-> r] : r \in Perms(out.names)}

InitExpandKG ==
    /\ kgx_pc = "start"
    /\ extracted \in ExpandInputs
    /\ neighbor_lookup \in AdapterStates(extracted)
    /\ kgx_query = <<>>
    /\ all_concepts = {}
    /\ extraction_strategy = "simple"
    /\ extractor_outcome = <<>>
    /\ expanded = <<>>
    /\ expanded_query = <<>>
    /\ RRFIdle
    /\ KGIdle
    /\ DedupIdle
    /\ WinIdle
    /\ AskIdle
    /\ ExtractIdle
    /\ HybridIdle
    /\ ConcIdle
    /\ BuildIdle
    /\ LinkIdle
    /\ StudentIdle
    /\ PrereqIdle
    /\ CacheIdle
    /\ AdapterIdle
    /\ ChunkerIdle

expand_with_kg ==
    /\ kgx_pc = "start"
    /\ \E out \in ExpandWithKG(extracted, neighbor_lookup) :
          /\ kgx_pc' = out.pc
          /\ expanded' = out.result
    /\ UNCHANGED <<kgx_query, all_concepts, extraction_strategy, extractor_outcome,
                   neighbor_lookup, extracted, expanded_query>>
    /\ UNCHANGED notExpander

NextExpandKG == expand_with_kg

SpecExpandKG == InitExpandKG /\ [][NextExpandKG]_vars

DuplicateFree(s) == \A i, j \in 1..Len(s) : i # j => s[i] # s[j]

\* every input concept and every neighbour of a concept whose lookup
\* succeeded is in the result
ExpansionComplete ==
    /\ Range(extracted) \subseteq Range(expanded)
    /\ \A c \in Range(extracted) :
          ~neighbor_lookup.lookup[c].fails
              => neighbor_lookup.lookup[c].names \subseteq Range(expanded)

\* expand_with_kg never raises; with a connected adapter its result is
\* duplicate-free and complete, failed lookups being skipped one by one.
ExpandConnectedIsSetUnion ==
    /\ kgx_pc # "raised"
    /\ (kgx_pc = "done" /\ neighbor_lookup.connected)
          => DuplicateFree(expanded) /\ ExpansionComplete

\* Without an adapter the input list comes back as it was passed.
ExpandDisconnectedReturnsInput ==
    (kgx_pc = "done" /\ ~neighbor_lookup.connected) => expanded = extracted

\* C12: expand_with_kg always returns a duplicate-free list that contains
\* every input concept; when the neighbour lookup fails for some of the
\* concepts, those failures are swallowed one concept at a time and the
\* result still contains the neighbours of every concept whose lookup
\* succeeded.
C12_ExpansionSwallowsFailures ==
    /\ kgx_pc # "raised"
    /\ kgx_pc = "done" => DuplicateFree(expanded) /\ ExpansionComplete

\* ------------------------------------------------ KGExpander.expand_query

\* " ".join(names)
RECURSIVE JoinSpace(_)
JoinSpace(names) ==
    IF names = <<>> THEN <<>>
    ELSE IF Len(names) = 1 THEN names[1]
    ELSE names[1] \o <<" ">> \o JoinSpace(Tail(names))

\* f"{query} {expanded_terms}" if expanded else query
ExpandedQuery(q, names) ==
    IF names # <<>> THEN q \o <<" ">> \o JoinSpace(names) ELSE q

\* expand_query: the set of [pc, extracted, expanded, expanded_query] it can end with
ExpandQuery(q, known, strategy, outcome, adapter) ==
    UNION {IF e.pc = "raised"
           THEN {[pc |-> "raised", extracted |-> <<>>, expanded |-> <<>>, expanded_query |-> <<>>]}
           ELSE {IF x.pc = "raised"
                 THEN [pc |-> "raised", extracted |-> e.result, expanded |-> <<>>,
                       expanded_query |-> <<>>]
                 ELSE [pc |-> "done", extracted |-> e.result, expanded |-> x.result,
                       expanded_query |-> ExpandedQuery(q, x.result)] :
                 x \in ExpandWithKG(e.result, adapter)} :
           e \in ExtractConceptsFromQuery(q, known, strategy, outcome)}

InitExpandQuery ==
    /\ kgx_pc = "start"
    /\ kgx_query \in Queries
    /\ all_concepts \in SUBSET ExpandInputPool
    /\ extraction_strategy \in ExtractionStrategies
    /\ extractor_outcome \in ExtractorOutcomes(kgx_query, all_concepts)
    /\ neighbor_lookup \in AdapterStates(SetToSeq(all_concepts))
    /\ extracted = <<>>
    /\ expanded = <<>>
    /\ expanded_query = <<>>
    /\ RRFIdle
    /\ KGIdle
    /\ DedupIdle
    /\ WinIdle
    /\ AskIdle
    /\ ExtractIdle
    /\ HybridIdle
    /\ ConcIdle
    /\ BuildIdle
    /\ LinkIdle
    /\ StudentIdle
    /\ PrereqIdle
    /\ CacheIdle
    /\ AdapterIdle
    /\ ChunkerIdle

expand_query ==
    /\ kgx_pc = "start"
    /\ \E out \in ExpandQuery(kgx_query, all_concepts, extraction_strategy,
                              extractor_outcome, neighbor_lookup) :
          /\ kgx_pc' = out.pc
          /\ extracted' = out.extracted
          /\ expanded' = out.expanded
          /\ expanded_query' = out.expanded_query
    /\ UNCHANGED <<kgx_query, all_concepts, extraction_strategy, extractor_outcome,
                   neighbor_lookup>>
    /\ UNCHANGED notExpander

NextExpandQuery == expand_query

SpecExpandQuery == InitExpandQuery /\ [][NextExpandQuery]_vars

\* "expansion_count": len(expanded) - len(extracted)
ExpansionCount == Len(expanded) - Len(extracted)

\* The suffix is appended whenever the expanded list is non-empty, also when
\* it holds nothing but the extracted concepts.
ExpandedQuerySuffixIffConcepts ==
    kgx_pc = "done" =>
        /\ expanded = <<>> => expanded_query = kgx_query
        /\ expanded # <<>> => expanded_query = kgx_query \o <<" ">> \o JoinSpace(expanded)

\* C13: expand_query returns an expanded_query that is the original query
\* followed by the space-joined expanded concept names when expansion
\* occurred, and that equals the original query unchanged when no expansion
\* occurred (the graph contributed no concept beyond those extracted from the
\* query, i.e. expansion_count = 0).
C13_ExpandedQuerySuffix ==
    kgx_pc = "done" =>
        IF ExpansionCount = 0
        THEN expanded_query = kgx_query
        ELSE expanded_query = kgx_query \o <<" ">> \o JoinSpace(expanded)

\* ------------------------------------------------ retrieve_with_window: deduplication and hit flags

OutputIds == [i \in 1..Len(all_chunks) |-> all_chunks[i].chunk_id]

\* C14: with deduplication on, each chunk id appears at most once in the
\* output of retrieve_with_window, even when the chunk is reachable from the
\* windows of several input hits or an input id is repeated.
C14_DedupOncePerChunk ==
    (win_pc = "done" /\ deduplicate)
        => \A i, j \in 1..Len(all_chunks) : i # j => OutputIds[i] # OutputIds[j]

\* two different hits with overlapping windows, and one of them given twice
C14_Witness ==
    /\ win_pc = "done"
    /\ deduplicate
    /\ chunk_ids = << <<"m1", 2>>, <<"m1", 3>>, <<"m1", 2>> >>
    /\ window_size = 1
    /\ OutputIds = << <<"m1", 1>>, <<"m1", 2>>, <<"m1", 3>>, <<"m1", 4>> >>

\* With deduplication on, the flag of a chunk is decided by the first hit
\* whose window reaches it: the chunk is flagged exactly when it is an input
\* id that no earlier input's window holds.
FirstReach(id) ==
    CHOOSE k \in 1..Len(chunk_ids) :
        /\ id \in Neighbourhood(chunk_ids[k], EffectiveWindow(window_size))
        /\ \A m \in 1..(k - 1) :
              id \notin Neighbourhood(chunk_ids[m], EffectiveWindow(window_size))

HitFlagByFirstReach ==
    (win_pc = "done" /\ deduplicate)
        => \A i \in 1..Len(all_chunks) :
              all_chunks[i].is_original_hit
                  <=> chunk_ids[FirstReach(all_chunks[i].chunk_id)] = all_chunks[i].chunk_id

\* C15: in the output of retrieve_with_window a chunk is flagged as an
\* original hit if and only if its id is one of the input chunk ids; this
\* also holds for a hit chunk that lies inside the window of another hit
\* processed earlier.
C15_HitFlagIffInput ==
    win_pc = "done"
        => \A i \in 1..Len(all_chunks) :
              all_chunks[i].is_original_hit <=> all_chunks[i].chunk_id \in Range(chunk_ids)

\* ---------------------------------------------------------------------------
\* Hybrid retrieval: OpenSearchRetriever._retrieve_hybrid and
\* UnifiedRetriever._retrieve_hybrid (backend/app/rag)
\* ---------------------------------------------------------------------------

MaxArmHits == 2

ArmDocIds == {"D1", "D2"}

\* "opensearch_hybrid": OpenSearchRetriever in retrieval_mode "hybrid";
\* "unified_knn" / "unified_hybrid": UnifiedRetriever backend "hybrid" over an
\* OpenSearchRetriever in retrieval_mode "knn" / "hybrid"
HybridModes == {"opensearch_hybrid", "unified_knn", "unified_hybrid"}

\* the backend queries of a path, in the order the code calls them
ArmOrder(mode) ==
    CASE mode = "opensearch_hybrid" -> <<"knn", "bm25">>
      [] mode = "unified_knn" -> <<"neo4j", "knn">>
      [] mode = "unified_hybrid" -> <<"neo4j", "knn", "bm25">>

Arms(mode) == Range(ArmOrder(mode))

ArmIndex(mode, a) == CHOOSE i \in 1..Len(ArmOrder(mode)) : ArmOrder(mode)[i] = a

IdsOf(results) == [i \in 1..Len(results) |-> results[i].id]

\* OpenSearchRetriever.retrieve: fused in "hybrid" mode, the kNN hits otherwise
OpenSearchRetrieve(mode, hits, topk) ==
    IF mode = "unified_knn"
    THEN hits["knn"]
    ELSE IdsOf(OpenSearchRRF(hits["knn"], hits["bm25"], topk))

\* the list the path returns once every query has returned
HybridFuse(mode, hits, topk) ==
    IF mode = "opensearch_hybrid"
    THEN IdsOf(OpenSearchRRF(hits["knn"], hits["bm25"], topk))
    ELSE IdsOf(UnifiedRetrieveHybridFuse(hits["neo4j"],
                                         OpenSearchRetrieve(mode, hits, topk), topk))

\* no try/except around client.search / vector_search: the exception leaves
\* _retrieve_hybrid
OnArmFailure == "raise"

InitHybrid ==
    /\ hyb_pc = "running"
    /\ hyb_mode \in HybridModes
    /\ arm_status = [a \in Arms(hyb_mode) |-> "not_issued"]
    /\ arm_fault \in SUBSET Arms(hyb_mode)
    /\ hyb_top_k \in 1..MaxArmHits
    /\ arm_hits \in [Arms(hyb_mode) -> InjSeqs(ArmDocIds, hyb_top_k)]
    /\ hyb_result = <<>>
    /\ RRFIdle
    /\ KGIdle
    /\ DedupIdle
    /\ WinIdle
    /\ AskIdle
    /\ ExtractIdle
    /\ ExpanderIdle
    /\ ConcIdle
    /\ BuildIdle
    /\ LinkIdle
    /\ StudentIdle
    /\ PrereqIdle
    /\ CacheIdle
    /\ AdapterIdle
    /\ ChunkerIdle

\* the call of one backend query: made when every earlier call has returned
IssueArm(a) ==
    /\ hyb_pc = "running"
    /\ a \in Arms(hyb_mode)
    /\ arm_status[a] = "not_issued"
    /\ \A b \in Arms(hyb_mode) :
          ArmIndex(hyb_mode, b) < ArmIndex(hyb_mode, a) => arm_status[b] = "returned"
    /\ arm_status' = [arm_status EXCEPT ![a] = "in_flight"]
    /\ UNCHANGED <<hyb_pc, hyb_mode, arm_fault, arm_hits, hyb_top_k, hyb_result>>
    /\ UNCHANGED notHybrid

\* the backend answers the call, or the call raises
ArmResponds(a) ==
    /\ hyb_pc = "running"
    /\ a \in Arms(hyb_mode)
    /\ arm_status[a] = "in_flight"
    /\ IF a \in arm_fault
       THEN /\ arm_status' = [arm_status EXCEPT ![a] = "failed"]
            /\ hyb_pc' = IF OnArmFailure = "raise" THEN "raised" ELSE hyb_pc
       ELSE /\ arm_status' = [arm_status EXCEPT ![a] = "returned"]
            /\ hyb_pc' = hyb_pc
    /\ UNCHANGED <<hyb_mode, arm_fault, arm_hits, hyb_top_k, hyb_result>>
    /\ UNCHANGED notHybrid

\* reciprocal rank fusion of the returned lists
HybridFusion ==
    /\ hyb_pc = "running"
    /\ \A a \in Arms(hyb_mode) : arm_status[a] = "returned"
    /\ hyb_result' = HybridFuse(hyb_mode, arm_hits, hyb_top_k)
    /\ hyb_pc' = "done"
    /\ UNCHANGED <<hyb_mode, arm_status, arm_fault, arm_hits, hyb_top_k>>
    /\ UNCHANGED notHybrid

NextHybrid ==
    \/ \E a \in {"neo4j", "knn", "bm25"} : IssueArm(a)
    \/ \E a \in {"neo4j", "knn", "bm25"} : ArmResponds(a)
    \/ HybridFusion

SpecHybrid == InitHybrid /\ [][NextHybrid]_vars

\* the request has returned a list or ended with an exception
HybridEnded == hyb_pc \in {"done", "raised"}

\* the hits of a failed query count as an empty list
SurvivorHits == [a \in Arms(hyb_mode) |-> IF a \in arm_fault THEN <<>> ELSE arm_hits[a]]

\* Any failing query ends the request with its exception: a list is returned
\* only when no query failed, and then it is the fusion of all the lists.
ArmFailureAbortsRetrieval ==
    /\ hyb_pc = "done" => arm_fault = {} /\ hyb_result = HybridFuse(hyb_mode, arm_hits, hyb_top_k)
    /\ hyb_pc = "raised" => \E a \in arm_fault : arm_status[a] = "failed"

\* C16: if exactly one of the retrieval arms being fused fails (the BM25 or
\* the kNN query in OpenSearchRetriever hybrid mode; the Neo4j or the
\* OpenSearch backend in UnifiedRetriever hybrid mode), retrieval proceeds
\* with the results of the arm that succeeded instead of failing the whole
\* request.
C16_OneArmFailureTolerated ==
    (HybridEnded /\ Cardinality(arm_fault) = 1)
        => /\ hyb_pc = "done"
           /\ hyb_result = HybridFuse(hyb_mode, SurvivorHits, hyb_top_k)

\* The queries are issued strictly one after the other: while one is in
\* flight no other has been issued or can be issued.
ArmsIssuedSequentially ==
    hyb_pc = "running" =>
        \A a, b \in Arms(hyb_mode) :
            (a # b /\ arm_status[a] = "in_flight")
                => arm_status[b] \in {"not_issued", "returned"} /\ ~ENABLED IssueArm(b)

\* C17: in hybrid retrieval the lexical (BM25) query and the vector (kNN)
\* query, and in the combined backend mode the graph-native query as well,
\* are issued concurrently: none of them waits for another's result before
\* it is issued, and fusion starts only after all of them have returned.
C17_ArmsIssuedConcurrently ==
    /\ hyb_pc = "running" =>
          \A a, b \in Arms(hyb_mode) :
              (arm_status[a] = "in_flight" /\ arm_status[b] = "not_issued")
                  => ENABLED IssueArm(b)
    /\ hyb_pc = "done" => \A a \in Arms(hyb_mode) : arm_status[a] = "returned"

\* ---------------------------------------------------------------------------
\* Two callers of expand_query on the process-wide ConceptExtractor
\* (get_concept_extractor returns one module-level instance; every KGExpander
\* writes its all_concepts into it before extracting)
\* ---------------------------------------------------------------------------

Callers == {1, 2}

ConcQueries == {<<"A">>, <<"A", "b">>}

\* two calls with different, non-empty known-concept sets
ConcKnownSets ==
    {k \in [Callers -> (SUBSET NeighborPool) \ {{}}] : k[1] # k[2]}

InitConc ==
    /\ cx_pc = [t \in Callers |-> "start"]
    /\ cx_query \in [Callers -> ConcQueries]
    /\ cx_known \in ConcKnownSets
    /\ shared_known = {}
    /\ cx_extracted = [t \in Callers |-> <<>>]
    /\ RRFIdle
    /\ KGIdle
    /\ DedupIdle
    /\ WinIdle
    /\ AskIdle
    /\ ExtractIdle
    /\ ExpanderIdle
    /\ HybridIdle
    /\ BuildIdle
    /\ LinkIdle
    /\ StudentIdle
    /\ PrereqIdle
    /\ CacheIdle
    /\ AdapterIdle
    /\ ChunkerIdle

\* extractor.set_known_concepts(all_concepts)
CallSetKnownConcepts(t) ==
    /\ cx_pc[t] = "start"
    /\ shared_known' = cx_known[t]
    /\ cx_pc' = [cx_pc EXCEPT ![t] = "installed"]
    /\ UNCHANGED <<cx_query, cx_known, cx_extracted>>
    /\ UNCHANGED notConc

\* extractor.extract_concepts(query, ...) matches against the extractor's
\* known_concepts as they are now; the fallback uses the caller's own
\* argument. The rest of expand_query touches nothing shared.
CallExtractConcepts(t) ==
    /\ cx_pc[t] = "installed"
    /\ \E outcome \in ExtractorOutcomes(cx_query[t], shared_known) :
          \E out \in ExtractConceptsFromQuery(cx_query[t], cx_known[t], "ensemble", outcome) :
              /\ cx_extracted' = [cx_extracted EXCEPT ![t] = out.result]
              /\ cx_pc' = [cx_pc EXCEPT ![t] = "done"]
    /\ UNCHANGED <<cx_query, cx_known, shared_known>>
    /\ UNCHANGED notConc

NextConc ==
    \/ \E t \in Callers : CallSetKnownConcepts(t)
    \/ \E t \in Callers : CallExtractConcepts(t)

SpecConc == InitConc /\ [][NextConc]_vars

\* A call's extraction reads whatever set was installed last: its concepts
\* come from its own set or from the other caller's.
ExtractedFromSomeInstalledSet ==
    \A t \in Callers :
        cx_pc[t] = "done" => \E u \in Callers : Range(cx_extracted[t]) \subseteq cx_known[u]

\* C18: when two expand_query calls with different known-concept sets run in
\* parallel, under every interleaving each call's extracted concepts are
\* drawn only from its own known-concept set (the known-concept state one
\* call installs on the shared extractor is never used by the other).
C18_NoCrossQueryInterference ==
    \A t \in Callers :
        cx_pc[t] = "done" => Range(cx_extracted[t]) \subseteq cx_known[t]

\* ---------------------------------------------------------------------------
\* KGBuilder.build_from_records: grouping the corpus records
\* (backend/app/kg/builder.py)
\* ---------------------------------------------------------------------------

MaxRecords == 2

RequiredFields == {"module_id", "module_title", "key_terms", "text", "section"}

BuildModuleIds == {"m1", "m2"}

\* a record: the fields it has and, when present, its module_id ("" stands
\* for a record without the field); at most one field is missing
RecordShapes ==
    {r \in [module_id : BuildModuleIds \cup {""}, fields : SUBSET RequiredFields] :
        /\ Cardinality(RequiredFields \ r.fields) <= 1
        /\ (r.module_id = "") <=> ("module_id" \notin r.fields)}

WellFormed(r) == r.fields = RequiredFields

\* the grouping loop; record[...] on a missing key raises KeyError, which no
\* handler in build_from_records or its caller catches
RECURSIVE GroupRecords(_, _, _)
GroupRecords(recs, i, data) ==
    IF i > Len(recs) THEN [pc |-> "done", data |-> data]
    ELSE LET record == recs[i]
             isNew == record.module_id \notin DOMAIN data
             needed == {"module_id", "text", "section"}
                       \cup (IF isNew THEN {"module_title", "key_terms"} ELSE {})
         IN  IF "module_id" \notin record.fields \/ ~(needed \subseteq record.fields)
             THEN [pc |-> "raised", data |-> data]
             ELSE GroupRecords(recs, i + 1,
                      IF isNew
                      THEN DictPut(data, record.module_id, [title_from |-> i, texts |-> <<i>>])
                      ELSE [data EXCEPT ![record.module_id].texts = Append(@, i)])

InitBuild ==
    /\ build_pc = "start"
    /\ records \in SeqsUpTo(RecordShapes, MaxRecords)
    /\ modules_data = <<>>
    /\ RRFIdle
    /\ KGIdle
    /\ DedupIdle
    /\ WinIdle
    /\ AskIdle
    /\ ExtractIdle
    /\ ExpanderIdle
    /\ HybridIdle
    /\ ConcIdle
    /\ LinkIdle
    /\ StudentIdle
    /\ PrereqIdle
    /\ CacheIdle
    /\ AdapterIdle
    /\ ChunkerIdle

\* build_from_records up to the module nodes; the later steps read the same
\* record["text"] again and add no new way to fail
build_from_records ==
    /\ build_pc = "start"
    /\ LET out == GroupRecords(records, 1, <<>>)
       IN  /\ build_pc' = out.pc
           /\ modules_data' = IF out.pc = "done" THEN out.data ELSE modules_data
    /\ UNCHANGED records
    /\ UNCHANGED notBuild

NextBuild == build_from_records

SpecBuild == InitBuild /\ [][NextBuild]_vars

\* the indexes of the well-formed records of module m, in corpus order
RECURSIVE WellFormedOf(_, _, _)
WellFormedOf(recs, i, m) ==
    IF i > Len(recs) THEN <<>>
    ELSE IF WellFormed(recs[i]) /\ recs[i].module_id = m
         THEN <<i>> \o WellFormedOf(recs, i + 1, m)
         ELSE WellFormedOf(recs, i + 1, m)

\* The build ends with KeyError as soon as a record lacks a field the loop
\* reads; a graph is built only from a corpus in which no record does.
BuildAbortsOnMissingField ==
    /\ build_pc = "raised" => \E i \in 1..Len(records) : ~WellFormed(records[i])
    /\ build_pc = "done" =>
          \A i \in 1..Len(records) :
              {"module_id", "text", "section"} \subseteq records[i].fields

\* C19: build_from_records skips any corpus record that lacks a required
\* field (module_id, module_title, key_terms, text, section) and builds the
\* graph from the remaining records; one malformed record never aborts the
\* build.
C19_MalformedRecordSkipped ==
    /\ build_pc # "raised"
    /\ build_pc = "done" =>
          /\ DOMAIN modules_data
                = {records[i].module_id : i \in {j \in 1..Len(records) : WellFormed(records[j])}}
          /\ \A m \in DOMAIN modules_data :
                modules_data[m].texts = WellFormedOf(records, 1, m)

\* ---------------------------------------------------------------------------
\* Sequential linking of chunks: TextChunker.chunk_records
\* (backend/app/rag/chunker.py) and add_sequential_linking
\* (scripts/migrate_to_enterprise.py)
\* ---------------------------------------------------------------------------

MaxLinkRecords == 2

MaxChunksPerRecord == 2

MaxRawChunks == 3

LinkModuleIds == {"m1", "m2"}

\* ids are tuples: <<"r", i>> is the id of record i, <<"r", i, k>> the
\* generated id "<record id>_<k>", <<"chunk", k>> the generated id of a
\* record without an id, <<"c", n>> an index document id; <<>> stands for None
NoneId == <<>>

\* a record: its module, whether it carries an "id" field, and the number of
\* chunks its text is cut into (0: empty or blank text)
LinkRecordShapes ==
    [module_id : LinkModuleIds, has_id : BOOLEAN, pieces : 0..MaxChunksPerRecord]

RecordId(i) == <<"r", i>>

\* f"{metadata.get('id', 'chunk')}_{chunk_id}"
CurrentId(rec, i, k) == IF rec.has_id THEN <<"r", i, k>> ELSE <<"chunk", k>>

\* chunk_text(text, metadata, previous_chunk_id) for record i: the loop that
\* appends chunk k with previous_chunk_id = prev_id and patches the
\* next_chunk_id of the chunk before it in this call's own list;
\* chunk.update(metadata) then overwrites "id" with the record's id
RECURSIVE ChunkText(_, _, _, _, _)
ChunkText(rec, i, k, prev_id, chunks) ==
    IF k >= rec.pieces THEN chunks
    ELSE LET current_id == CurrentId(rec, i, k)
             patched == IF chunks # <<>> /\ prev_id # NoneId
                        THEN [chunks EXCEPT ![Len(chunks)].next_chunk_id = current_id]
                        ELSE chunks
             chunk == [id |-> IF rec.has_id THEN RecordId(i) ELSE current_id,
                       chunk_index |-> k,
                       previous_chunk_id |-> prev_id,
                       next_chunk_id |-> NoneId,
                       module_id |-> rec.module_id]
         IN  ChunkText(rec, i, k + 1, current_id, Append(patched, chunk))

\* chunk_records(records) with group_by = "module_id"
RECURSIVE ChunkRecords(_, _, _, _)
ChunkRecords(recs, i, last_chunk_id_per_group, acc) ==
    IF i > Len(recs) THEN acc
    ELSE IF recs[i].pieces = 0
    THEN ChunkRecords(recs, i + 1, last_chunk_id_per_group, acc)
    ELSE LET group_id == recs[i].module_id
             prev_chunk_id == IF group_id \in DOMAIN last_chunk_id_per_group
                              THEN last_chunk_id_per_group[group_id] ELSE NoneId
             chunks == ChunkText(recs[i], i, 0, prev_chunk_id, <<>>)
         IN  ChunkRecords(recs, i + 1,
                          DictPut(last_chunk_id_per_group, group_id, chunks[Len(chunks)].id),
                          acc \o chunks)

\* sort(key=id) of the chunks of one module: ids <<"c", n>> order by n
RECURSIVE InsertById(_, _)
InsertById(sorted, c) ==
    IF sorted = <<>> THEN <<c>>
    ELSE IF c.id[2] < Head(sorted).id[2] THEN <<c>> \o sorted
    ELSE <<Head(sorted)>> \o InsertById(Tail(sorted), c)

RECURSIVE SortById(_)
SortById(cs) == IF cs = <<>> THEN <<>> ELSE InsertById(SortById(SubSeq(cs, 1, Len(cs) - 1)), cs[Len(cs)])

\* group_chunks_by_module
GroupChunksByModule(cs, m) == SortById(SelectSeq(cs, LAMBDA c : c.module_id = m))

\* add_sequential_linking: every chunk gets its neighbours in its module's
\* sorted list; the chunks stay where they are in the input list
AddSequentialLinking(cs) ==
    [p \in 1..Len(cs) |->
        LET module_chunks == GroupChunksByModule(cs, cs[p].module_id)
            i == CHOOSE n \in 1..Len(module_chunks) : module_chunks[n].id = cs[p].id
        IN  [id |-> cs[p].id,
             chunk_index |-> i - 1,
             previous_chunk_id |-> IF i > 1 THEN module_chunks[i - 1].id ELSE NoneId,
             next_chunk_id |-> IF i < Len(module_chunks) THEN module_chunks[i + 1].id ELSE NoneId,
             module_id |-> cs[p].module_id]]

\* the documents of the index: ids are unique
RawChunkLists ==
    {cs \in SeqsUpTo([id : {<<"c", n>> : n \in 1..MaxRawChunks}, module_id : LinkModuleIds],
                     MaxRawChunks) :
        \A p, q \in 1..Len(cs) : p # q => cs[p].id # cs[q].id}

InitLink ==
    /\ \/ /\ link_pc = "start_chunker"
          /\ link_records \in SeqsUpTo(LinkRecordShapes, MaxLinkRecords)
          /\ raw_chunks = <<>>
       \/ /\ link_pc = "start_migration"
          /\ link_records = <<>>
          /\ raw_chunks \in RawChunkLists
    /\ linked_chunks = <<>>
    /\ RRFIdle
    /\ KGIdle
    /\ DedupIdle
    /\ WinIdle
    /\ AskIdle
    /\ ExtractIdle
    /\ ExpanderIdle
    /\ HybridIdle
    /\ ConcIdle
    /\ BuildIdle
    /\ StudentIdle
    /\ PrereqIdle
    /\ CacheIdle
    /\ AdapterIdle
    /\ ChunkerIdle

chunk_records ==
    /\ link_pc = "start_chunker"
    /\ linked_chunks' = ChunkRecords(link_records, 1, <<>>, <<>>)
    /\ link_pc' = "done_chunker"
    /\ UNCHANGED <<link_records, raw_chunks>>
    /\ UNCHANGED notLink

add_sequential_linking ==
    /\ link_pc = "start_migration"
    /\ linked_chunks' = AddSequentialLinking(raw_chunks)
    /\ link_pc' = "done_migration"
    /\ UNCHANGED <<link_records, raw_chunks>>
    /\ UNCHANGED notLink

NextLink ==
    \/ chunk_records
    \/ add_sequential_linking

SpecLink == InitLink /\ [][NextLink]_vars

\* positions of module m's chunks in the output
ModulePositions(m) == {p \in 1..Len(linked_chunks) : linked_chunks[p].module_id = m}

\* A.next_chunk_id = B exactly when B.previous_chunk_id = A
PointersMutual(m) ==
    \A p, q \in ModulePositions(m) :
        (linked_chunks[p].next_chunk_id = linked_chunks[q].id)
            <=> (linked_chunks[q].previous_chunk_id = linked_chunks[p].id)

\* following next pointers from the module's first chunk visits every chunk
\* of the module once and ends: some listing of the module's chunks starts
\* with its first chunk, steps along next_chunk_id and ends at None
ChainTotal(m) ==
    LET P == ModulePositions(m)
        first == CHOOSE p \in P : \A q \in P : p <= q
    IN  P # {} =>
          \E path \in Perms(P) :
              /\ path[1] = first
              /\ \A k \in 1..(Len(path) - 1) :
                    linked_chunks[path[k]].next_chunk_id = linked_chunks[path[k + 1]].id
              /\ linked_chunks[path[Len(path)]].next_chunk_id = NoneId

\* The migration's linking is consistent for every module.
MigrationLinkingConsistent ==
    link_pc = "done_migration" =>
        \A m \in LinkModuleIds :
            /\ PointersMutual(m)
            /\ \E path \in Perms(ModulePositions(m)) :
                  /\ \A k \in 1..(Len(path) - 1) :
                        linked_chunks[path[k]].next_chunk_id = linked_chunks[path[k + 1]].id
                  /\ path # <<>> =>
                        /\ linked_chunks[path[1]].previous_chunk_id = NoneId
                        /\ linked_chunks[path[Len(path)]].next_chunk_id = NoneId

\* In the chunker a chunk's next_chunk_id never names a chunk of a later
\* record: the last chunk of every record keeps next_chunk_id = None.
ChunkerNeverLinksAcrossRecords ==
    link_pc = "done_chunker" =>
        \A p \in 1..Len(linked_chunks) :
            (p = Len(linked_chunks) \/ linked_chunks[p + 1].chunk_index = 0)
                => linked_chunks[p].next_chunk_id = NoneId

\* C20: for the chunks of one module produced by sequential linking, the
\* previous/next pointers are mutually consistent: A.next_chunk_id = B holds
\* exactly when B.previous_chunk_id = A, also across record boundaries inside
\* the module, and following next pointers from the module's first chunk
\* visits every chunk of the module once without a cycle.
C20_PointersConsistent ==
    link_pc \in {"done_chunker", "done_migration"} =>
        \A m \in LinkModuleIds : PointersMutual(m) /\ ChainTotal(m)

\* ---------------------------------------------------------------------------
\* Student mastery tracking: StudentService.update_mastery
\* (backend/app/student/student_service.py); levels are in hundredths
\* ---------------------------------------------------------------------------

MaxMasteryCalls == 5

CORRECT_DELTA == 15

INCORRECT_DELTA == 10

MIN_MASTERY == 10

MAX_MASTERY == 100

\* settings.student_initial_mastery: 0.3 unless configured otherwise
InitialMasteries == {0, 30, 95}

StudentIds == {"default"}

MasteryConcepts == {"c1", "c2"}

\* ConceptMastery(concept_name, mastery_level)
NewConceptMastery(level) == [mastery_level |-> level, attempts |-> 0, correct_attempts |-> 0]

\* the level without the floor
NewLevelNoFloor(level, correct) ==
    IF correct THEN Min2(MAX_MASTERY, level + CORRECT_DELTA) ELSE level - INCORRECT_DELTA

\* max(MIN_MASTERY, min(MAX_MASTERY, mastery_level + delta))
NewLevel(level, correct) ==
    Max2(MIN_MASTERY,
         Min2(MAX_MASTERY,
              level + (IF correct THEN CORRECT_DELTA ELSE 0 - INCORRECT_DELTA)))

\* get_profile: the student's mastery_map, created empty when missing
GetProfile(profiles, student_id) ==
    IF student_id \in DOMAIN profiles THEN profiles[student_id] ELSE <<>>

\* the mastery entry update_mastery works on: the stored one, or a new one
GetOrCreateMastery(mastery_map, concept, initial) ==
    IF concept \in DOMAIN mastery_map THEN mastery_map[concept] ELSE NewConceptMastery(initial)

\* the entry after one answer
UpdatedMastery(mastery, correct) ==
    [mastery_level |-> NewLevel(mastery.mastery_level, correct),
     attempts |-> mastery.attempts + 1,
     correct_attempts |-> mastery.correct_attempts + (IF correct THEN 1 ELSE 0)]

InitStudent ==
    /\ student_pc = "serving"
    /\ student_profiles = <<>>
    /\ mastery_calls = 0
    /\ mastery_response = <<>>
    /\ RRFIdle
    /\ KGIdle
    /\ DedupIdle
    /\ WinIdle
    /\ AskIdle
    /\ ExtractIdle
    /\ ExpanderIdle
    /\ HybridIdle
    /\ ConcIdle
    /\ BuildIdle
    /\ LinkIdle
    /\ PrereqIdle
    /\ CacheIdle
    /\ AdapterIdle
    /\ ChunkerIdle

update_mastery ==
    /\ student_pc = "serving"
    /\ mastery_calls < MaxMasteryCalls
    /\ \E student_id \in StudentIds, concept \in MasteryConcepts, correct \in BOOLEAN,
          initial \in InitialMasteries :
          LET profile == GetProfile(student_profiles, student_id)
              mastery == GetOrCreateMastery(profile, concept, initial)
              updated == UpdatedMastery(mastery, correct)
          IN  /\ student_profiles' = DictPut(student_profiles, student_id,
                                             DictPut(profile, concept, updated))
              /\ mastery_response' = [student_id |-> student_id,
                                      concept |-> concept,
                                      correct |-> correct,
                                      previous_mastery |-> mastery.mastery_level,
                                      new_mastery |-> updated.mastery_level,
                                      total_attempts |-> updated.attempts]
    /\ mastery_calls' = mastery_calls + 1
    /\ UNCHANGED student_pc
    /\ UNCHANGED notStudent

\* reset_profile: the student's profile is replaced by a new, empty one
reset_profile ==
    /\ student_pc = "serving"
    /\ \E student_id \in StudentIds :
          /\ student_id \in DOMAIN student_profiles
          /\ student_profiles[student_id] # <<>>
          /\ student_profiles' = DictPut(student_profiles, student_id, <<>>)
    /\ mastery_response' = <<>>
    /\ UNCHANGED <<student_pc, mastery_calls>>
    /\ UNCHANGED notStudent

NextStudent ==
    \/ update_mastery
    \/ reset_profile

SpecStudent == InitStudent /\ [][NextStudent]_vars

\* the entry the last response is about
RespondedMastery == student_profiles[mastery_response.student_id][mastery_response.concept]

\* the state part: levels in range, counters consistent, the last response
\* reports the level the rule gives
MasteryInRange ==
    /\ \A s \in DOMAIN student_profiles : \A c \in DOMAIN student_profiles[s] :
          LET m == student_profiles[s][c]
          IN  /\ MIN_MASTERY <= m.mastery_level
              /\ m.mastery_level <= MAX_MASTERY
              /\ m.attempts >= 1
              /\ m.correct_attempts <= m.attempts
    /\ mastery_response # <<>> =>
          LET r == mastery_response
          IN  /\ RespondedMastery.mastery_level = r.new_mastery
              /\ RespondedMastery.attempts = r.total_attempts
              /\ r.correct =>
                    r.new_mastery = IF r.previous_mastery + CORRECT_DELTA > MAX_MASTERY
                                    THEN MAX_MASTERY
                                    ELSE r.previous_mastery + CORRECT_DELTA
              /\ ~r.correct =>
                    r.new_mastery = IF r.previous_mastery - INCORRECT_DELTA < MIN_MASTERY
                                    THEN MIN_MASTERY
                                    ELSE r.previous_mastery - INCORRECT_DELTA

\* the step part: attempts grows by exactly one on the concept a call updates
AttemptsStep ==
    update_mastery =>
          LET r == mastery_response'
              before == GetProfile(student_profiles, r.student_id)
          IN  RespondedMastery'.attempts =
                  (IF r.concept \in DOMAIN before THEN before[r.concept].attempts ELSE 0) + 1

\* C21: after any sequence of update_mastery calls the mastery_level of every
\* updated concept lies in [0.1, 1.0]: a correct answer raises it by 0.15
\* capped at 1.0, an incorrect answer lowers it by 0.10 floored at 0.1; each
\* call increases attempts by exactly one and correct_attempts never exceeds
\* attempts.
C21_MasteryBounded == []MasteryInRange /\ [][AttemptsStep]_vars

\* an incorrect answer at the floor and a correct answer at the cap have both happened
C21_Witness ==
    /\ mastery_response # <<>>
    /\ ~mastery_response.correct
    /\ mastery_response.previous_mastery < MIN_MASTERY + INCORRECT_DELTA
    /\ mastery_response.new_mastery = MIN_MASTERY
    /\ \E c \in DOMAIN student_profiles["default"] :
          /\ student_profiles["default"][c].mastery_level = MAX_MASTERY
          /\ student_profiles["default"][c].attempts >= 2

\* ---------------------------------------------------------------------------
\* UnifiedRetriever._expand_with_window (backend/app/rag/unified_retriever.py)
\* on the chunk store of the window retrieval above
\* ---------------------------------------------------------------------------

\* the inner loop: for wc in window_chunks, with seen_ids already holding the hit
RECURSIVE UnifiedAddWindowChunks(_, _, _)
UnifiedAddWindowChunks(acc, window_chunks, chunk_id) ==
    IF window_chunks = <<>> THEN acc
    ELSE LET wc == Head(window_chunks)
         IN  IF wc.chunk_id \in acc.seen_ids
             THEN UnifiedAddWindowChunks(acc, Tail(window_chunks), chunk_id)
             ELSE UnifiedAddWindowChunks(
                      [seen_ids |-> acc.seen_ids \cup {wc.chunk_id},
                       chunks |-> Append(acc.chunks,
                                         [chunk_id |-> wc.chunk_id,
                                          module_id |-> wc.module_id,
                                          chunk_index |-> wc.chunk_index,
                                          is_window_context |-> wc.chunk_id # chunk_id])],
                      Tail(window_chunks), chunk_id)

\* the outer loop: for chunk in chunks
RECURSIVE UnifiedCollectWindows(_, _, _)
UnifiedCollectWindows(acc, ids, w) ==
    IF ids = <<>> THEN acc.chunks
    ELSE IF Head(ids) \in acc.seen_ids
    THEN UnifiedCollectWindows(acc, Tail(ids), w)
    ELSE UnifiedCollectWindows(
             UnifiedAddWindowChunks([acc EXCEPT !.seen_ids = @ \cup {Head(ids)}],
                                    get_chunk_window(Head(ids), w, w), Head(ids)),
             Tail(ids), w)

\* _expand_with_window(chunks, window_size)
ExpandWithWindow(ids, w) ==
    SortReadingOrder(UnifiedCollectWindows([seen_ids |-> {}, chunks |-> <<>>], ids, w))

\* the retrieved hits carry distinct ids; the callers expand only for window_size > 0
InitUnifiedWin ==
    /\ win_pc = "start_unified"
    /\ chunk_ids \in InjSeqs(StoredChunkIds \cup {UnknownChunkId}, MaxChunkIds)
    /\ window_size \in 1..MaxWindow
    /\ deduplicate = TRUE
    /\ all_chunks = <<>>
    /\ RRFIdle
    /\ KGIdle
    /\ DedupIdle
    /\ AskIdle
    /\ ExtractIdle
    /\ ExpanderIdle
    /\ HybridIdle
    /\ ConcIdle
    /\ BuildIdle
    /\ LinkIdle
    /\ StudentIdle
    /\ PrereqIdle
    /\ CacheIdle
    /\ AdapterIdle
    /\ ChunkerIdle

expand_with_window ==
    /\ win_pc = "start_unified"
    /\ all_chunks' = ExpandWithWindow(chunk_ids, window_size)
    /\ win_pc' = "done_unified"
    /\ UNCHANGED <<chunk_ids, window_size, deduplicate>>
    /\ UNCHANGED notWin

NextUnifiedWin == expand_with_window

SpecUnifiedWin == InitUnifiedWin /\ [][NextUnifiedWin]_vars

\* No chunk of the output is flagged as a hit: a hit is in seen_ids before its
\* window is read, so it is appended only when an earlier hit's window holds
\* it, and then as window context (and its own window is not read); the first
\* hit is never in the output, its neighbours are.
UnifiedWindowDropsHits ==
    win_pc = "done_unified" =>
        LET out == {all_chunks[i].chunk_id : i \in 1..Len(all_chunks)}
            reach == UNION {Neighbourhood(chunk_ids[k], window_size) : k \in 1..Len(chunk_ids)}
        IN  /\ out \subseteq reach
            /\ chunk_ids # <<>> =>
                  /\ chunk_ids[1] \notin out
                  /\ Neighbourhood(chunk_ids[1], window_size) \ {chunk_ids[1]} \subseteq out
            /\ \A i \in 1..Len(all_chunks) : all_chunks[i].is_window_context
            /\ \A i, j \in 1..Len(all_chunks) :
                  i < j => ReadingOrderLE(all_chunks[i], all_chunks[j])

\* C22: window expansion keeps every retrieved hit chunk in its output flagged
\* is_window_context = false, adds the neighbouring chunks flagged true, and
\* orders the result by (module_id, chunk_index); for window 1 around chunk 2
\* of a module with chunks 0..4 the output is chunks [1,2,3].
C22_UnifiedWindowKeepsHits ==
    win_pc = "done_unified" =>
        /\ \A k \in 1..Len(chunk_ids) :
              \E i \in 1..Len(all_chunks) :
                  /\ all_chunks[i].chunk_id = chunk_ids[k]
                  /\ ~all_chunks[i].is_window_context
        /\ \A i \in 1..Len(all_chunks) :
              all_chunks[i].chunk_id \notin Range(chunk_ids)
                  => /\ all_chunks[i].is_window_context
                     /\ \E k \in 1..Len(chunk_ids) :
                           all_chunks[i].chunk_id \in Neighbourhood(chunk_ids[k], window_size)
        /\ \A i, j \in 1..Len(all_chunks) :
              i < j => ReadingOrderLE(all_chunks[i], all_chunks[j])
        /\ (chunk_ids = <<(<<"m1", 2>>)>> /\ window_size = 1)
              => [i \in 1..Len(all_chunks) |-> all_chunks[i].chunk_id]
                    = << <<"m1", 1>>, <<"m1", 2>>, <<"m1", 3>> >>

\* ---------------------------------------------------------------------------
\* RELATED edges of the knowledge graph (KnowledgeGraph.add_relationship,
\* KGBuilder._mine_concept_relationships)
\* ---------------------------------------------------------------------------

\* tuple(sorted([c1, c2])): the order of the concept names as strings
CanonicalOrder(source, target) == source = "A" /\ target = "B"

\* the positions of the RELATED edges stored between a and b, in either direction
RelatedEdges(a, b) ==
    {i \in 1..Len(relationships) :
        /\ relationships[i].type = "RELATED"
        /\ {relationships[i].source, relationships[i].target} = {a, b}}

\* a RELATED relationship between a and b was inserted, in either direction
RelatedInserted(a, b) ==
    \E k \in 1..Len(relationship_calls) :
        /\ relationship_calls[k].type = "RELATED"
        /\ {relationship_calls[k].source, relationship_calls[k].target} = {a, b}

\* When every RELATED insertion is made in canonical order, as the builder's
\* co-occurrence mining makes them, one edge is stored for the pair.
RelatedSingleWhenInsertedCanonical ==
    (\A k \in 1..Len(relationship_calls) :
         relationship_calls[k].type = "RELATED"
             => CanonicalOrder(relationship_calls[k].source, relationship_calls[k].target))
        => \A a, b \in ConceptNames :
               (a # b /\ RelatedInserted(a, b)) => Cardinality(RelatedEdges(a, b)) = 1

\* C23: a RELATED relationship between two concepts is stored as a single edge
\* in canonical endpoint order: after any sequence of insertions, including
\* (A,B,RELATED) followed by (B,A,RELATED), the graph holds exactly one RELATED
\* edge for the unordered pair {A,B}.
C23_RelatedSingleCanonicalEdge ==
    \A a, b \in ConceptNames :
        (a # b /\ RelatedInserted(a, b))
            => /\ Cardinality(RelatedEdges(a, b)) = 1
               /\ \A i \in RelatedEdges(a, b) :
                     CanonicalOrder(relationships[i].source, relationships[i].target)

\* ---------------------------------------------------------------------------
\* Prerequisite extraction: KGBuilder._extract_prereq_relationships
\* (backend/app/kg/builder.py)
\* ---------------------------------------------------------------------------

MaxTextBefore == 2

MaxPrereqMatches == 1

\* the known concepts; names are sequences of characters
PrereqNames == {<<"a">>, <<"b">>, <<"c">>}

PrereqTextAlphabet == {"A", "b", "c"}

\* match.group(1): spans that are a concept, contain one, or resolve to none
CapturedSpans == {<<"A">>, <<"b">>, <<"c">>, <<"x">>, <<"x", "b">>}

\* a pattern match: text[:match.start()] and match.group(1)
PrereqMatches ==
    [text_before : SeqsUpTo(PrereqTextAlphabet, MaxTextBefore), captured : CapturedSpans]

NoConcept == <<>>

\* the first element of the list that satisfies test, or NoConcept
FirstInOrder(names, test(_)) ==
    IF \E i \in 1..Len(names) : test(names[i])
    THEN names[CHOOSE i \in 1..Len(names) :
                   test(names[i]) /\ \A j \in 1..(i - 1) : ~test(names[j])]
    ELSE NoConcept

\* _match_text_to_concept(matched_text, concept_lookup): exact match, else
\* the first concept containing the text or contained in it
MatchTextToConcept(matched_text, names) ==
    IF \E i \in 1..Len(names) : Lower(names[i]) = matched_text
    THEN FirstInOrder(names, LAMBDA c : Lower(c) = matched_text)
    ELSE FirstInOrder(names, LAMBDA c : IsSubstring(Lower(c), matched_text)
                                          \/ IsSubstring(matched_text, Lower(c)))

\* the loop over concept_lookup.items(): the first concept of the list that
\* occurs anywhere in the text before the match and is not the target
SourceConcept(text_before, target_concept, names) ==
    FirstInOrder(names,
                 LAMBDA c : IsSubstring(Lower(c), Lower(text_before)) /\ c # target_concept)

\* the loop over the matches; evidence identifies the match an edge comes from
RECURSIVE ExtractPrereqRelationships(_, _, _, _)
ExtractPrereqRelationships(names, pattern_matches, k, rels) ==
    IF k > Len(pattern_matches) THEN rels
    ELSE LET target_concept == MatchTextToConcept(Lower(pattern_matches[k].captured), names)
             source_concept == SourceConcept(pattern_matches[k].text_before, target_concept, names)
         IN  IF target_concept = NoConcept \/ source_concept = NoConcept
             THEN ExtractPrereqRelationships(names, pattern_matches, k + 1, rels)
             ELSE ExtractPrereqRelationships(
                      names, pattern_matches, k + 1,
                      AddRelationshipResult(rels, [source |-> source_concept,
                                                   target |-> target_concept,
                                                   type |-> "PREREQ",
                                                   weight |-> 8,
                                                   evidence |-> k]))

InitPrereq ==
    /\ prereq_pc = "start"
    /\ prereq_concepts \in ListOfSet(PrereqNames)
    /\ prereq_matches \in SeqsUpTo(PrereqMatches, MaxPrereqMatches)
    /\ prereq_relationships = <<>>
    /\ RRFIdle
    /\ KGIdle
    /\ DedupIdle
    /\ WinIdle
    /\ AskIdle
    /\ ExtractIdle
    /\ ExpanderIdle
    /\ HybridIdle
    /\ ConcIdle
    /\ BuildIdle
    /\ LinkIdle
    /\ StudentIdle
    /\ CacheIdle
    /\ AdapterIdle
    /\ ChunkerIdle

extract_prereq_relationships ==
    /\ prereq_pc = "start"
    /\ prereq_relationships' =
           ExtractPrereqRelationships(prereq_concepts, prereq_matches, 1, <<>>)
    /\ prereq_pc' = "done"
    /\ UNCHANGED <<prereq_concepts, prereq_matches>>
    /\ UNCHANGED notPrereq

NextPrereq == extract_prereq_relationships

SpecPrereq == InitPrereq /\ [][NextPrereq]_vars

\* the end position of the last occurrence of the concept in the text, 0 if none
LastOccurrence(c, text) ==
    LET ends == {i \in 1..Len(text) :
                    i >= Len(c) /\ SubSeq(text, i - Len(c) + 1, i) = Lower(c)}
    IN  IF ends = {} THEN 0 ELSE CHOOSE i \in ends : \A j \in ends : j <= i

\* the known concepts other than the target that occur before the match
SourceCandidates(m, target_concept) ==
    {c \in PrereqNames : c # target_concept /\ LastOccurrence(c, Lower(m.text_before)) > 0}

\* Every edge's source is the first concept of the concepts list, in list
\* order, that occurs before the match.
PrereqSourceIsFirstInList ==
    prereq_pc = "done" =>
        \A i \in 1..Len(prereq_relationships) :
            LET e == prereq_relationships[i]
                m == prereq_matches[e.evidence]
            IN  /\ e.source \in SourceCandidates(m, e.target)
                /\ \A c \in SourceCandidates(m, e.target) :
                      \E p, q \in 1..Len(prereq_concepts) :
                          /\ prereq_concepts[p] = e.source
                          /\ prereq_concepts[q] = c
                          /\ p <= q

\* C24: for every prerequisite pattern match whose captured span resolves to a
\* known target concept, the PREREQ edge created has as source the known
\* concept, different from the target, whose occurrence in the text before the
\* match is nearest to the match; when several known concepts occur before the
\* match, the nearest one is chosen, not another.
C24_PrereqSourceIsNearest ==
    prereq_pc = "done" =>
        \A i \in 1..Len(prereq_relationships) :
            LET e == prereq_relationships[i]
                m == prereq_matches[e.evidence]
            IN  /\ e.source \in SourceCandidates(m, e.target)
                /\ \A c \in SourceCandidates(m, e.target) :
                      LastOccurrence(c, Lower(m.text_before))
                          <= LastOccurrence(e.source, Lower(m.text_before))

\* ---------------------------------------------------------------------------
\* Ensemble score fusion (ConceptExtractor._extract_ensemble, extract_concepts)
\* ---------------------------------------------------------------------------

\* what the two strategies contributed to the ensemble, one after the other
StrategyMatches == ExtractNer(ner_status, ner_found) \o ExtractYake(yake_found)

\* m: the highest score any strategy gave the concept
HighestScore(name) ==
    LET scores == {StrategyMatches[i].score :
                      i \in {j \in 1..Len(StrategyMatches) : StrategyMatches[j].name = name}}
    IN  CHOOSE v \in scores : \A w \in scores : w <= v

\* k: the number of distinct strategies that found the concept
StrategiesFinding(name) ==
    Cardinality({StrategyMatches[i].strategy :
                    i \in {j \in 1..Len(StrategyMatches) : StrategyMatches[j].name = name}})

\* min(1.0, m * (1 + 0.2 * (k - 1))) in thousandths
FusedScore(name) ==
    LET boosted == (HighestScore(name) * (10 + 2 * (StrategiesFinding(name) - 1))) \div 10
    IN  IF boosted > 1000 THEN 1000 ELSE boosted

\* C25: ensemble extraction returns each concept name at most once, with
\* score min(1.0, m * (1 + 0.2 * (k - 1))), where m is the highest score any
\* strategy gave the concept and k is the number of distinct strategies that
\* found it; the public extract result is then sorted by score descending and
\* cut to top_k.
C25_EnsembleFusedScores ==
    extract_pc \in {"done_ensemble", "done_extract"} =>
        /\ \A i, j \in 1..Len(matches) : i # j => matches[i].name # matches[j].name
        /\ NamesOf(matches) \subseteq NamesOf(StrategyMatches)
        /\ \A i \in 1..Len(matches) :
              /\ matches[i].score = FusedScore(matches[i].name)
              /\ matches[i].strategy = "ensemble"
        /\ extract_pc = "done_ensemble" => NamesOf(matches) = NamesOf(StrategyMatches)
        /\ extract_pc = "done_extract" =>
              /\ Len(matches) = Min2(extract_top_k, Cardinality(NamesOf(StrategyMatches)))
              /\ \A i, j \in 1..Len(matches) : i < j => matches[i].score >= matches[j].score
              /\ \A n \in NamesOf(StrategyMatches) \ NamesOf(matches) :
                    \A i \in 1..Len(matches) : FusedScore(n) <= matches[i].score

\* a concept found twice by the keyword strategy only is not boosted, one found
\* by both strategies is boosted to the cap, and top_k cuts the ranking
C25_Witness ==
    /\ extract_pc = "done_extract"
    /\ ner_status = "ok"
    /\ extract_top_k = 2
    /\ Len(yake_found) = 2
    /\ yake_found[1].name = yake_found[2].name
    /\ \E n \in NamesOf(ner_found) : StrategiesFinding(n) = 1
    /\ \E n \in NamesOf(ner_found) \cap NamesOf(yake_found) :
          /\ HighestScore(n) = 900
          /\ \E i \in 1..Len(matches) : matches[i].name = n /\ matches[i].score = 1000
    /\ Cardinality(NamesOf(StrategyMatches)) = 2

\* ---------------------------------------------------------------------------
\* Ids and chunk_index of the chunks TextChunker.chunk_records produces
\* ---------------------------------------------------------------------------

\* chunk_index counts the chunks of one chunk_text call: it restarts at 0 with
\* every record, and a record's chunks follow each other in the output.
ChunkIndexIsPositionInRecord ==
    link_pc = "done_chunker" =>
        \A p \in 1..Len(linked_chunks) :
            \/ linked_chunks[p].chunk_index = 0
            \/ /\ p > 1
               /\ linked_chunks[p - 1].module_id = linked_chunks[p].module_id
               /\ linked_chunks[p - 1].chunk_index = linked_chunks[p].chunk_index - 1

\* C26: the chunks chunk_records produces for one module carry pairwise
\* distinct ids, their previous/next pointers refer only to ids of produced
\* chunks, and their chunk_index values are the distinct 0-based positions of
\* the chunks within the module, so sorting a module's chunks by chunk_index
\* reproduces the order of its NEXT chain.
C26_ChunkIdsAndIndexes ==
    link_pc = "done_chunker" =>
        \A m \in LinkModuleIds :
            LET P == ModulePositions(m)
                ids == {linked_chunks[p].id : p \in P}
            IN  /\ \A p, q \in P : p # q => linked_chunks[p].id # linked_chunks[q].id
                /\ \A p \in P :
                      /\ linked_chunks[p].previous_chunk_id \in ids \cup {NoneId}
                      /\ linked_chunks[p].next_chunk_id \in ids \cup {NoneId}
                      /\ linked_chunks[p].chunk_index = Cardinality({q \in P : q < p})

\* ---------------------------------------------------------------------------
\* The concept-embedding cache of ConceptExtractor
\* (set_known_concepts, _ensure_concept_embeddings, _extract_embedding)
\* ---------------------------------------------------------------------------

MaxSetCalls == 3

EmbeddingConcepts == {"x", "y"}

\* what the embedding model does during one extraction
EncodeOutcomes == {"ok", "encode_batch_raises", "encode_query_raises"}

\* a set_known_concepts that leaves the cached embeddings in place
CacheKeptAfterSet(cache) == cache

\* set_known_concepts: self._concept_embeddings = {}
CacheAfterSet(cache) == <<>>

\* _ensure_concept_embeddings: a non-empty cache is kept, an empty one is
\* filled for list(self.known_concepts) unless that set is empty
EnsureConceptEmbeddings(cache, known, version) ==
    IF cache # <<>> THEN cache
    ELSE IF known = {} THEN cache
    ELSE [c \in known |-> version]

InitCache ==
    /\ cache_pc = "serving"
    /\ known_concepts \in SUBSET EmbeddingConcepts
    /\ concept_embeddings = <<>>
    /\ set_version = 0
    /\ cache_fills = 0
    /\ embedding_matches = {}
    /\ RRFIdle
    /\ KGIdle
    /\ DedupIdle
    /\ WinIdle
    /\ AskIdle
    /\ ExtractIdle
    /\ ExpanderIdle
    /\ HybridIdle
    /\ ConcIdle
    /\ BuildIdle
    /\ LinkIdle
    /\ StudentIdle
    /\ PrereqIdle
    /\ AdapterIdle
    /\ ChunkerIdle

set_known_concepts ==
    /\ cache_pc = "serving"
    /\ set_version < MaxSetCalls
    /\ \E new_concepts \in SUBSET EmbeddingConcepts : known_concepts' = new_concepts
    /\ concept_embeddings' = CacheAfterSet(concept_embeddings)
    /\ set_version' = set_version + 1
    /\ UNCHANGED <<cache_pc, cache_fills, embedding_matches>>
    /\ UNCHANGED notCache

\* _extract_embedding(text): the concepts whose similarity reaches the
\* threshold are some of the cached ones; any exception gives no match
extract_embedding ==
    /\ cache_pc = "serving"
    /\ \E outcome \in EncodeOutcomes :
          IF known_concepts = {}
          THEN /\ embedding_matches' = {}
               /\ UNCHANGED <<concept_embeddings, cache_fills>>
          ELSE IF outcome = "encode_batch_raises" /\ concept_embeddings = <<>>
          THEN /\ embedding_matches' = {}
               /\ UNCHANGED <<concept_embeddings, cache_fills>>
          ELSE LET cache == EnsureConceptEmbeddings(concept_embeddings, known_concepts,
                                                    set_version)
               IN  /\ concept_embeddings' = cache
                   /\ cache_fills' = IF concept_embeddings = <<>> THEN cache_fills + 1
                                     ELSE cache_fills
                   /\ IF outcome = "encode_query_raises"
                      THEN embedding_matches' = {}
                      ELSE \E similar \in SUBSET (DOMAIN cache) :
                              embedding_matches' =
                                  {[name |-> c, computed_for |-> cache[c],
                                    used_at |-> set_version] : c \in similar}
    /\ UNCHANGED <<cache_pc, known_concepts, set_version>>
    /\ UNCHANGED notCache

NextCache ==
    \/ set_known_concepts
    \/ extract_embedding

SpecCache == InitCache /\ [][NextCache]_vars

\* C27: after any sequence of set_known_concepts calls and
\* embedding-similarity extractions, the concept-embedding cache is either
\* empty or holds embeddings for exactly the current known-concept set;
\* embeddings computed for an earlier concept set are never used for matching
\* after the set has changed.
C27_CacheMatchesKnownSet ==
    /\ \/ concept_embeddings = <<>>
       \/ /\ DOMAIN concept_embeddings = known_concepts
          /\ \A c \in DOMAIN concept_embeddings : concept_embeddings[c] = set_version
    /\ \A m \in embedding_matches : m.computed_for = m.used_at

\* the cache was filled, the set was changed, and an extraction matched on a
\* cache filled again for the new set
C27_Witness ==
    /\ cache_fills >= 2
    /\ set_version >= 1
    /\ concept_embeddings # <<>>
    /\ \E m \in embedding_matches : m.used_at = set_version /\ m.used_at >= 1

\* ---------------------------------------------------------------------------
\* Cached Neo4j adapters and KG expanders (kg/neo4j_adapter.py
\* get_neo4j_adapter, clear_neo4j_adapters; rag/kg_expansion.py
\* get_kg_expander, clear_kg_expanders)
\* ---------------------------------------------------------------------------

MaxAdapters == 3

SubjectIds == {"biology", "us_history"}

\* GraphDatabase.driver(...) and the test query succeed, or connect raises
ConnectOutcomes == {"ok", "raises"}

\* Neo4jAdapter.connect()
AdapterConnect(states, a, outcome) ==
    IF outcome = "ok" THEN [states EXCEPT ![a] = "open"] ELSE states

\* Neo4jAdapter.close(): closes the driver if there is one; self.driver stays set
AdapterClose(states, a) ==
    IF states[a] = "unconnected" THEN states ELSE [states EXCEPT ![a] = "closed"]

\* closing each adapter of a set, one after the other
RECURSIVE CloseAll(_, _)
CloseAll(states, as) ==
    IF as = {} THEN states
    ELSE LET a == CHOOSE x \in as : TRUE
         IN  CloseAll(AdapterClose(states, a), as \ {a})

\* get_neo4j_adapter(subject_id): the registry, the adapters and the result
\* (0: the call raised)
GetNeo4jAdapter(registry, states, subject_id, outcome) ==
    IF subject_id \in DOMAIN registry
    THEN LET adapter == registry[subject_id]
         IN  IF states[adapter] = "unconnected"
             THEN [registry |-> registry,
                   states |-> AdapterConnect(states, adapter, outcome),
                   result |-> IF outcome = "ok" THEN adapter ELSE 0]
             ELSE [registry |-> registry, states |-> states, result |-> adapter]
    ELSE LET adapter == Len(states) + 1
             created == Append(states, "unconnected")
         IN  IF outcome = "ok"
             THEN [registry |-> DictPut(registry, subject_id, adapter),
                   states |-> AdapterConnect(created, adapter, outcome),
                   result |-> adapter]
             ELSE [registry |-> registry, states |-> created, result |-> 0]

InitAdapter ==
    /\ adapter_pc = "serving"
    /\ adapter_state = <<>>
    /\ neo4j_adapters = <<>>
    /\ kg_expanders = <<>>
    /\ kg_expander = -1
    /\ adapter_returned = <<>>
    /\ RRFIdle
    /\ KGIdle
    /\ DedupIdle
    /\ WinIdle
    /\ AskIdle
    /\ ExtractIdle
    /\ ExpanderIdle
    /\ HybridIdle
    /\ ConcIdle
    /\ BuildIdle
    /\ LinkIdle
    /\ StudentIdle
    /\ PrereqIdle
    /\ CacheIdle
    /\ ChunkerIdle

get_neo4j_adapter ==
    /\ adapter_pc = "serving"
    /\ \E subject_id \in SubjectIds, outcome \in ConnectOutcomes :
          /\ (subject_id \in DOMAIN neo4j_adapters \/ Len(adapter_state) < MaxAdapters)
          /\ LET got == GetNeo4jAdapter(neo4j_adapters, adapter_state, subject_id, outcome)
             IN  /\ neo4j_adapters' = got.registry
                 /\ adapter_state' = got.states
                 /\ adapter_returned' =
                        IF got.result = 0 THEN <<>>
                        ELSE [adapter |-> got.result,
                              open |-> got.states[got.result] = "open"]
    /\ UNCHANGED <<adapter_pc, kg_expanders, kg_expander>>
    /\ UNCHANGED notAdapter

\* get_kg_expander(subject_id) with a subject: KGExpander.connect() takes the
\* subject's adapter from get_neo4j_adapter; a failure leaves neo4j_adapter None
get_kg_expander ==
    /\ adapter_pc = "serving"
    /\ \E subject_id \in SubjectIds, outcome \in ConnectOutcomes :
          IF subject_id \in DOMAIN kg_expanders
          THEN UNCHANGED <<adapter_state, neo4j_adapters, kg_expanders>>
          ELSE /\ (subject_id \in DOMAIN neo4j_adapters \/ Len(adapter_state) < MaxAdapters)
               /\ LET got == GetNeo4jAdapter(neo4j_adapters, adapter_state, subject_id, outcome)
                  IN  /\ neo4j_adapters' = got.registry
                      /\ adapter_state' = got.states
                      /\ kg_expanders' = DictPut(kg_expanders, subject_id, got.result)
    /\ UNCHANGED <<adapter_pc, kg_expander, adapter_returned>>
    /\ UNCHANGED notAdapter

\* get_kg_expander(None): the default expander gets an adapter of its own,
\* assigned before it is connected
get_default_kg_expander ==
    /\ adapter_pc = "serving"
    /\ \E outcome \in ConnectOutcomes :
          IF kg_expander # -1
          THEN UNCHANGED <<adapter_state, kg_expander>>
          ELSE /\ Len(adapter_state) < MaxAdapters
               /\ adapter_state' = AdapterConnect(Append(adapter_state, "unconnected"),
                                                  Len(adapter_state) + 1, outcome)
               /\ kg_expander' = Len(adapter_state) + 1
    /\ UNCHANGED <<adapter_pc, neo4j_adapters, kg_expanders, adapter_returned>>
    /\ UNCHANGED notAdapter

\* clear_kg_expanders(): the default expander is dropped, every registered
\* expander with an adapter closes it
clear_kg_expanders ==
    /\ adapter_pc = "serving"
    /\ kg_expander' = -1
    /\ adapter_state' = CloseAll(adapter_state,
                                 {kg_expanders[s] : s \in DOMAIN kg_expanders} \ {0})
    /\ kg_expanders' = <<>>
    /\ UNCHANGED <<adapter_pc, neo4j_adapters, adapter_returned>>
    /\ UNCHANGED notAdapter

\* clear_neo4j_adapters()
clear_neo4j_adapters ==
    /\ adapter_pc = "serving"
    /\ adapter_state' = CloseAll(adapter_state,
                                 {neo4j_adapters[s] : s \in DOMAIN neo4j_adapters})
    /\ neo4j_adapters' = <<>>
    /\ UNCHANGED <<adapter_pc, kg_expanders, kg_expander, adapter_returned>>
    /\ UNCHANGED notAdapter

NextAdapter ==
    \/ get_neo4j_adapter
    \/ get_kg_expander
    \/ get_default_kg_expander
    \/ clear_kg_expanders
    \/ clear_neo4j_adapters

SpecAdapter == InitAdapter /\ [][NextAdapter]_vars

\* A registered adapter was connected once, so its driver is never None again:
\* the reconnect branch of get_neo4j_adapter does not run for it.
RegisteredAdaptersKeepTheirDriver ==
    \A s \in DOMAIN neo4j_adapters : adapter_state[neo4j_adapters[s]] # "unconnected"

\* C28: under any sequence of get_neo4j_adapter, get_kg_expander,
\* clear_kg_expanders and clear_neo4j_adapters calls, an adapter returned by
\* get_neo4j_adapter or held by a cached KGExpander is open: no cached
\* component ever returns or keeps using an adapter whose connection has been
\* closed.
C28_CachedAdaptersOpen ==
    /\ adapter_returned # <<>> => adapter_returned.open
    /\ \A s \in DOMAIN kg_expanders :
          kg_expanders[s] # 0 => adapter_state[kg_expanders[s]] # "closed"
    /\ kg_expander # -1 => adapter_state[kg_expander] # "closed"

\* ---------------------------------------------------------------------------
\* The chunking loop of TextChunker.chunk_text (backend/app/rag/chunker.py);
\* positions are Python's 0-based indexes
\* ---------------------------------------------------------------------------

MaxTextLen == 5

MaxChunkSize == 3

\* a letter, a full stop, a space: of the sentence endings only ". " can occur
ChunkerAlphabet == {"x", ".", " "}

\* a slice bound as Python reads it: negative counts from the end, then clipped
SliceIndex(i, n) == IF i < 0 THEN Max2(i + n, 0) ELSE Min2(i, n)

\* text.rfind(". ", start, end): the highest position of ". " inside
\* text[start:end], or -1
RFindSentenceEnd(text, from, to) ==
    LET lo == SliceIndex(from, Len(text))
        hi == SliceIndex(to, Len(text))
        found == {p \in lo..(hi - 2) : text[p + 1] = "." /\ text[p + 2] = " "}
    IN  IF found = {} THEN -1 ELSE CHOOSE p \in found : \A q \in found : q <= p

\* text[start:end].strip() is not empty
ChunkNotBlank(text, from, to) ==
    \E p \in SliceIndex(from, Len(text))..(SliceIndex(to, Len(text)) - 1) : text[p + 1] # " "

\* end after the sentence-boundary search of one iteration
ChunkEnd(text, from, size) ==
    LET end == from + size
        pos == RFindSentenceEnd(text, from, end)
        best_break == IF pos > -1 THEN pos + 2 ELSE -1
    IN  IF end < Len(text) /\ best_break > from THEN best_break ELSE end

InitChunker ==
    /\ chunker_pc = "loop"
    /\ chunker_text \in SeqsUpTo(ChunkerAlphabet, MaxTextLen)
    /\ chunk_size \in 1..MaxChunkSize
    /\ chunk_overlap \in 0..(chunk_size - 1)
    /\ start_pos = 0
    /\ prev_start = -1
    /\ chunk_count = 0
    /\ RRFIdle
    /\ KGIdle
    /\ DedupIdle
    /\ WinIdle
    /\ AskIdle
    /\ ExtractIdle
    /\ ExpanderIdle
    /\ HybridIdle
    /\ ConcIdle
    /\ BuildIdle
    /\ LinkIdle
    /\ StudentIdle
    /\ PrereqIdle
    /\ CacheIdle
    /\ AdapterIdle

\* the while test fails: return chunks
chunk_text_returns ==
    /\ chunker_pc = "loop"
    /\ start_pos >= Len(chunker_text)
    /\ chunker_pc' = "done"
    /\ UNCHANGED <<chunker_text, chunk_size, chunk_overlap, start_pos, prev_start, chunk_count>>
    /\ UNCHANGED notChunker

\* one pass of the while body; the exploration stops once more chunks than
\* characters have been produced
chunk_text_iteration ==
    /\ chunker_pc = "loop"
    /\ start_pos < Len(chunker_text)
    /\ chunk_count <= Len(chunker_text)
    /\ LET end == ChunkEnd(chunker_text, start_pos, chunk_size)
           next_start == end - chunk_overlap
       IN  /\ chunk_count' = IF ChunkNotBlank(chunker_text, start_pos, end)
                             THEN chunk_count + 1 ELSE chunk_count
           /\ start_pos' = next_start
           /\ prev_start' = start_pos
           /\ chunker_pc' = IF next_start >= Len(chunker_text) - chunk_overlap
                            THEN "done" ELSE "loop"
    /\ UNCHANGED <<chunker_text, chunk_size, chunk_overlap>>
    /\ UNCHANGED notChunker

NextChunker ==
    \/ chunk_text_returns
    \/ chunk_text_iteration

SpecChunker == InitChunker /\ [][NextChunker]_vars

\* the text holds a sentence ending
HasSentenceEnd(text) == \E p \in 1..(Len(text) - 1) : text[p] = "." /\ text[p + 1] = " "

\* On a text without sentence endings the start position advances by
\* chunk_size - chunk_overlap on every pass and the chunks are at most as many
\* as the characters.
AdvancesWithoutSentenceEnds ==
    ~HasSentenceEnd(chunker_text) =>
        /\ chunk_count <= Len(chunker_text)
        /\ (chunker_pc # "idle" /\ prev_start >= 0) =>
              start_pos = prev_start + chunk_size - chunk_overlap

\* C29: chunk_text terminates on every finite text for every configuration
\* with 0 <= chunk_overlap < chunk_size, wherever the sentence boundaries fall:
\* the start position strictly advances on each iteration and the number of
\* chunks produced is bounded by the text length.
C29_ChunkingAdvances ==
    /\ chunker_pc = "loop" => start_pos > prev_start
    /\ chunk_count <= Len(chunker_text)

\* ---------------------------------------------------------------------------
\* The window the caller asked for (WindowRetriever.retrieve_with_window)
\* ---------------------------------------------------------------------------

\* C30: window expansion never pulls in more neighbours on either side of a
\* hit than the window_size the caller requested; in particular a request
\* with window_size = 0 returns only the hit chunks themselves.
C30_WindowWithinRequested ==
    (win_pc = "done" /\ window_size >= 0) =>
        /\ Range(OutputIds)
              \subseteq UNION {Neighbourhood(chunk_ids[k], window_size) : k \in 1..Len(chunk_ids)}
        /\ window_size = 0 => Range(OutputIds) = Range(chunk_ids) \cap StoredChunkIds

====
